---- MODULE Spec2Model ----
(***************************************************************************)
(* McBudget: recurring-entry expansion and monthly aggregation.            *)
(*                                                                         *)
(* The Firestore service layer (createRecurringExpense,                    *)
(* createRecurringIncome, getMonthlyIncome, getMonthlySummary, the         *)
(* deletes, ...) and the dashboard's roll-up are modelled as actions over  *)
(* the collections 'income', 'expenses', 'transactions' and the monthly    *)
(* summaries.  A call that awaits between a query and a write on the       *)
(* summaries is a sequence of steps, one per await.                        *)
(*                                                                         *)
(* The code steps a month counter by 0.25 / 0.5 / 1.  All three are exact  *)
(* binary fractions, so the counter is kept here in quarter months: a      *)
(* name ending in 4 holds four times the JavaScript value, and             *)
(* Math.floor(x) is  x4 \div 4.                                            *)
(*                                                                         *)
(* Dates are local-midnight calendar days (the code builds them with       *)
(* new Date(y, m, d) and resets today with setHours(0,0,0,0)); a date is   *)
(* a record [year, month (1..12), day].  An optional field (dueDate) is a  *)
(* sequence of length 0 or 1.  Pass-through fields that no operation       *)
(* reads (description, startDate, endDate, createdAt) are left out.        *)
(***************************************************************************)
EXTENDS Integers, Sequences, FiniteSets, TLC

VARIABLES
    authUser,               \* auth.currentUser: NoUser or [uid, email]
    envPrimaryEmail,        \* process.env.NEXT_PUBLIC_PRIMARY_USER_EMAIL ("" = unset)
    envPrimaryId,           \* process.env.NEXT_PUBLIC_PRIMARY_USER_ID    ("" = unset)
    isAccessingSharedData,  \* module-level flag of the service layer
    today,                  \* the calendar day new Date() falls on
    incomeStore,            \* collection 'income': set of documents
    expenseStore,           \* collection 'expenses': set of documents
    nextId,                 \* next auto-generated document id
    selectedMonth,          \* DashboardPage state: the month shown
    selectedYear,           \* DashboardPage state: the year shown
    includePending,         \* DashboardPage state: count unpaid entries too
    expensesList,           \* DashboardPage state: the expenses last fetched
    pageExpenses,           \* ExpensesPage state: expenses, the list it shows
    totalIncome,            \* DashboardPage state: the income total last computed
    transactionStore,       \* collection 'transactions': set of documents
    summaryStore,           \* collection 'summaries': set of documents
    calls,                  \* summary calls in flight: position and locals of each
    pc,                     \* "idle" before the call under study, "done" after
    last                    \* the call that was made and what it returned

vars == <<authUser, envPrimaryEmail, envPrimaryId, isAccessingSharedData, today,
          incomeStore, expenseStore, nextId, selectedMonth, selectedYear,
          includePending, expensesList, pageExpenses, totalIncome,
          transactionStore,
          summaryStore, calls, pc, last>>

dashVars == <<selectedMonth, selectedYear, includePending, expensesList, pageExpenses,
              totalIncome>>

sumVars == <<transactionStore, summaryStore, calls>>

authVars == <<authUser, envPrimaryEmail, envPrimaryId>>

-----------------------------------------------------------------------------
(* Bounds and input domains *)

\* number of years after 2024 that a range may start or end in
MaxYearSpan == 1

Years == 2024..(2024 + MaxYearSpan)

\* months a range may start or end in (expansion passes through all twelve)
EndpointMonths == {1, 3, 12}

\* "yearly" stands for any string outside the Income/Expense frequency type
RecognizedFrequencies == {"weekly", "biweekly", "monthly", "once"}
Frequencies == RecognizedFrequencies \cup {"yearly"}

\* 0 stands for an absent dueDayOfMonth (undefined and 0 are both falsy)
DueDays == {0, 1, 31, 32}

Amounts == {15, 100}

Date(y, m, d) == [year |-> y, month |-> m, day |-> d]

Todays == {Date(2024, 6, 1), Date(2025, 2, 28)}

TemplateDueDates == {<<>>, <<Date(2024, 6, 20)>>}

NoUser == [uid |-> "", email |-> ""]
PrimaryUser == [uid |-> "u1", email |-> "primary@example.com"]
PartnerUser == [uid |-> "u2", email |-> "partner@example.com"]

ExpenseTemplates ==
    [category : {"subscription"}, subcategory : {"Streaming"}, amount : Amounts,
     recurring : {TRUE}, frequency : Frequencies, isPaid : BOOLEAN,
     dueDate : TemplateDueDates, dueDayOfMonth : DueDays]

IncomeTemplates ==
    [source : {"Salary"}, amount : Amounts, recurring : {TRUE},
     frequency : Frequencies, isPaid : BOOLEAN]

\* <<endMonth, endYear>> as passed; <<0, 0>> stands for both omitted
EndArgs == {<<0, 0>>} \cup (EndpointMonths \X Years)

-----------------------------------------------------------------------------
(* JavaScript Date *)

IsLeapYear(y) == (y % 4 = 0 /\ y % 100 # 0) \/ (y % 400 = 0)

DaysInMonth(y, m) ==
    IF m = 2 THEN (IF IsLeapYear(y) THEN 29 ELSE 28)
    ELSE IF m \in {4, 6, 9, 11} THEN 30 ELSE 31

\* new Date(y, monthIndex, d): monthIndex is 0-based and may lie outside
\* 0..11, d may lie outside the month; both are carried into the result.
RECURSIVE NewDate(_, _, _)
NewDate(y, monthIndex, d) ==
    LET ny == y + (monthIndex \div 12)
        nm == (monthIndex % 12) + 1
    IN  IF d < 1
        THEN LET py == IF nm = 1 THEN ny - 1 ELSE ny
                 pm == IF nm = 1 THEN 12 ELSE nm - 1
             IN  NewDate(py, pm - 1, d + DaysInMonth(py, pm))
        ELSE IF d > DaysInMonth(ny, nm)
        THEN NewDate(ny, nm, d - DaysInMonth(ny, nm))
        ELSE Date(ny, nm, d)

\* a <= b on Date objects
DateLE(a, b) ==
    \/ a.year < b.year
    \/ a.year = b.year /\ a.month < b.month
    \/ a.year = b.year /\ a.month = b.month /\ a.day <= b.day

Min(a, b) == IF a <= b THEN a ELSE b

\* new Date(year, month, 0).getDate() with the 1-based month as the index
DaysInMonthOf(year, month) == NewDate(year, month, 0).day

-----------------------------------------------------------------------------
(* Owner identity *)

\* getCurrentUserId that never redirects to the primary user
GetCurrentUserId_OwnId ==
    IF authUser = NoUser
    THEN [ok |-> FALSE, userId |-> "", shared |-> isAccessingSharedData]
    ELSE [ok |-> TRUE, userId |-> authUser.uid, shared |-> FALSE]

GetCurrentUserId ==
    IF authUser = NoUser
    THEN [ok |-> FALSE, userId |-> "", shared |-> isAccessingSharedData]
    ELSE IF authUser.email # envPrimaryEmail /\ envPrimaryId # ""
    THEN [ok |-> TRUE, userId |-> envPrimaryId, shared |-> TRUE]
    ELSE [ok |-> TRUE, userId |-> authUser.uid, shared |-> FALSE]

-----------------------------------------------------------------------------
(* Recurrence expansion: createRecurringExpense / createRecurringIncome *)

\* DefaultEnd with the test inverted: a given end is overwritten
DefaultEnd_Inverted(endMonth, endYear, startYear) ==
    IF endMonth # 0 \/ endYear # 0 THEN <<12, startYear>> ELSE <<endMonth, endYear>>

\* DefaultEnd that sets endMonth = 12 also when an end is given
DefaultEnd_December(endMonth, endYear, startYear) ==
    IF endMonth = 0 \/ endYear = 0 THEN <<12, startYear>> ELSE <<12, endYear>>

\* if (!endMonth || !endYear) { endMonth = 12; endYear = startYear; }
DefaultEnd(endMonth, endYear, startYear) ==
    IF endMonth = 0 \/ endYear = 0 THEN <<12, startYear>> ELSE <<endMonth, endYear>>

TotalMonths(startMonth, startYear, endMonth, endYear) ==
    (endYear - startYear) * 12 + (endMonth - startMonth + 1)

\* frequencyMonths, in quarter months
FrequencyMonths4(frequency) ==
    IF frequency = "weekly" THEN 1
    ELSE IF frequency = "biweekly" THEN 2
    ELSE 4

\* the increment of currentMonth after an entry, in quarter months
Advance4(frequency) ==
    IF frequency = "weekly" THEN 1
    ELSE IF frequency = "biweekly" THEN 2
    ELSE 4

\* if (currentMonth > 12) { currentMonth -= 12; currentYear += 1; }
WrapOnce(currentMonth4, currentYear) ==
    IF currentMonth4 > 48 THEN <<currentMonth4 - 48, currentYear + 1>>
    ELSE <<currentMonth4, currentYear>>

\* WrapYear without the carry into the year
WrapYear_NoCarry(currentMonth4, currentYear) ==
    IF currentMonth4 > 48 THEN <<currentMonth4 - 48, currentYear>>
    ELSE <<currentMonth4, currentYear>>

\* WrapYear testing currentMonth >= 12
WrapYear_Ge(currentMonth4, currentYear) ==
    IF currentMonth4 >= 48 THEN <<currentMonth4 - 48, currentYear + 1>>
    ELSE <<currentMonth4, currentYear>>

\* while (currentMonth > 12) { currentMonth -= 12; currentYear += 1; }
RECURSIVE WrapYear(_, _)
WrapYear(currentMonth4, currentYear) ==
    IF currentMonth4 > 48 THEN WrapYear(currentMonth4 - 48, currentYear + 1)
    ELSE <<currentMonth4, currentYear>>

\* PastEnd comparing the years only
PastEnd_YearOnly(currentMonth4, currentYear, endMonth, endYear) ==
    currentYear > endYear

\* currentYear > endYear || (currentYear === endYear && currentMonth > endMonth)
PastEnd(currentMonth4, currentYear, endMonth, endYear) ==
    \/ currentYear > endYear
    \/ currentYear = endYear /\ currentMonth4 > 4 * endMonth

\* the due date of the occurrence of (year, month): the template's dueDate,
\* or the dueDayOfMonth clamped to the month's length when one is given
ResolveDueDate(template, year, month) ==
    IF template.dueDayOfMonth # 0
    THEN LET daysInMonth == DaysInMonthOf(year, month)
             actualDueDay == Min(template.dueDayOfMonth, daysInMonth)
         IN  <<NewDate(year, month - 1, actualDueDay)>>
    ELSE template.dueDate

\* isPaid of the first entry: the template's value unless a due date decides
FirstIsPaid(template, dueDate, now) ==
    IF dueDate # <<>> THEN DateLE(dueDate[1], now) ELSE template.isPaid

\* MonthIsPaid comparing with < instead of <=
MonthIsPaid_Strict(periodDueDate, now) ==
    IF periodDueDate # <<>>
    THEN DateLE(periodDueDate[1], now) /\ periodDueDate[1] # now
    ELSE FALSE

\* monthIsPaid of a later entry: false unless a due date decides
MonthIsPaid(periodDueDate, now) ==
    IF periodDueDate # <<>> THEN DateLE(periodDueDate[1], now) ELSE FALSE

ExpenseData(template, id, userId, month, year, dueDate, isPaid) ==
    [id |-> id, userId |-> userId, category |-> template.category,
     subcategory |-> template.subcategory, amount |-> template.amount,
     recurring |-> template.recurring, frequency |-> template.frequency,
     dueDayOfMonth |-> template.dueDayOfMonth, month |-> month, year |-> year,
     dueDate |-> dueDate, isPaid |-> isPaid]

\* the entry written for the start month before the loop
FirstExpense(template, id, userId, startMonth, startYear, now) ==
    LET dueDate == ResolveDueDate(template, startYear, startMonth)
    IN  ExpenseData(template, id, userId, startMonth, startYear, dueDate,
                    FirstIsPaid(template, dueDate, now))

\* for (let i = frequencyMonths; i < totalMonths; i += frequencyMonths) {...}
RECURSIVE RemainingExpenses(_, _, _, _, _, _, _, _, _, _)
RemainingExpenses(template, id, userId, i4, totalMonths, currentMonth4, currentYear, endMonth, endYear, now) ==
    IF ~(i4 < 4 * totalMonths) THEN <<>>
    ELSE IF PastEnd(currentMonth4, currentYear, endMonth, endYear) THEN <<>>
    ELSE LET month == currentMonth4 \div 4
             periodDueDate == ResolveDueDate(template, currentYear, month)
             expenseData == ExpenseData(template, id, userId, month, currentYear,
                                        periodDueDate, MonthIsPaid(periodDueDate, now))
             next == WrapYear(currentMonth4 + Advance4(template.frequency), currentYear)
         IN  <<expenseData>> \o
             RemainingExpenses(template, id + 1, userId,
                               i4 + FrequencyMonths4(template.frequency), totalMonths,
                               next[1], next[2], endMonth, endYear, now)

\* the documents createRecurringExpense puts in its batch, in order
ExpandExpense(template, firstId, userId, startMonth, startYear, endMonthArg, endYearArg, now) ==
    LET end == DefaultEnd(endMonthArg, endYearArg, startYear)
        totalMonths == TotalMonths(startMonth, startYear, end[1], end[2])
        next == WrapOnce(4 * startMonth + Advance4(template.frequency), startYear)
    IN  <<FirstExpense(template, firstId, userId, startMonth, startYear, now)>> \o
        RemainingExpenses(template, firstId + 1, userId,
                          FrequencyMonths4(template.frequency), totalMonths,
                          next[1], next[2], end[1], end[2], now)

IncomeData(template, id, userId, month, year) ==
    [id |-> id, userId |-> userId, source |-> template.source,
     amount |-> template.amount, recurring |-> template.recurring,
     frequency |-> template.frequency, isPaid |-> template.isPaid,
     month |-> month, year |-> year]

RECURSIVE RemainingIncome(_, _, _, _, _, _, _, _, _)
RemainingIncome(template, id, userId, i4, totalMonths, currentMonth4, currentYear, endMonth, endYear) ==
    IF ~(i4 < 4 * totalMonths) THEN <<>>
    ELSE IF PastEnd(currentMonth4, currentYear, endMonth, endYear) THEN <<>>
    ELSE LET next == WrapYear(currentMonth4 + Advance4(template.frequency), currentYear)
         IN  <<IncomeData(template, id, userId, currentMonth4 \div 4, currentYear)>> \o
             RemainingIncome(template, id + 1, userId,
                             i4 + FrequencyMonths4(template.frequency), totalMonths,
                             next[1], next[2], endMonth, endYear)

\* the documents createRecurringIncome puts in its batch, in order
ExpandIncome(template, firstId, userId, startMonth, startYear, endMonthArg, endYearArg) ==
    LET end == DefaultEnd(endMonthArg, endYearArg, startYear)
        totalMonths == TotalMonths(startMonth, startYear, end[1], end[2])
        next == WrapOnce(4 * startMonth + Advance4(template.frequency), startYear)
    IN  <<IncomeData(template, firstId, userId, startMonth, startYear)>> \o
        RemainingIncome(template, firstId + 1, userId,
                        FrequencyMonths4(template.frequency), totalMonths,
                        next[1], next[2], end[1], end[2])

Range(seq) == {seq[k] : k \in 1..Len(seq)}

NoCall ==
    [op |-> "none", outcome |-> "none", error |-> "", template |-> <<>>,
     startMonth |-> 0, startYear |-> 0, endMonth |-> 0, endYear |-> 0,
     month |-> 0, year |-> 0, includePending |-> FALSE,
     id |-> 0, deleteAll |-> FALSE, before |-> <<>>, result |-> {},
     category |-> "", ordered |-> <<>>, query |-> "none", fallback |-> "none",
     deleteType |-> "", bulk |-> "none", status |-> "",
     emitted |-> <<>>, value |-> 0]

CallRecord(op, outcome, error, template, sm, sy, em, ey, emitted) ==
    [op |-> op, outcome |-> outcome, error |-> error, template |-> template,
     startMonth |-> sm, startYear |-> sy, endMonth |-> em, endYear |-> ey,
     month |-> 0, year |-> 0, includePending |-> FALSE,
     id |-> 0, deleteAll |-> FALSE, before |-> <<>>, result |-> {},
     category |-> "", ordered |-> <<>>, query |-> "none", fallback |-> "none",
     deleteType |-> "", bulk |-> "none", status |-> "",
     emitted |-> emitted, value |-> Len(emitted)]

\* the pages that call getMonthlySummary; each has at most one call in flight
Callers == {"dashboard", "charts"}

\* a summary call that has not started: its position and its locals
IdleCall ==
    [at |-> "idle", op |-> "none", userId |-> "", month |-> 0, year |-> 0,
     totalIncome |-> 0, totalFixedExpenses |-> 0, paidFixedExpenses |-> 0,
     totalVariableExpenses |-> 0, paidVariableExpenses |-> 0,
     totalSubscriptions |-> 0, paidSubscriptions |-> 0,
     summarySnap |-> <<>>, result |-> <<>>, error |-> ""]

NoCalls == [c \in Callers |-> IdleCall]

\* createRecurringExpense with the first entry written outside the batch
CreateRecurringExpenseCall_FirstUnbatched(template, startMonth, startYear, end, commitOk) ==
    LET who == GetCurrentUserId
        emitted == ExpandExpense(template, nextId, who.userId, startMonth,
                                 startYear, end[1], end[2], today)
    IN  IF ~who.ok
        THEN /\ last' = CallRecord("createRecurringExpense", "error",
                                   "User not authenticated", template,
                                   startMonth, startYear, end[1], end[2], <<>>)
             /\ UNCHANGED <<isAccessingSharedData, expenseStore, nextId>>
        ELSE /\ isAccessingSharedData' = who.shared
             /\ nextId' = nextId + Len(emitted)
             /\ IF commitOk
                THEN /\ expenseStore' = expenseStore \cup Range(emitted)
                     /\ last' = CallRecord("createRecurringExpense", "ok", "",
                                           template, startMonth, startYear,
                                           end[1], end[2], emitted)
                ELSE /\ expenseStore' = expenseStore \cup {emitted[1]}
                     /\ last' = CallRecord("createRecurringExpense", "error",
                                           "commit failed", template, startMonth,
                                           startYear, end[1], end[2], emitted)

\* createRecurringExpense(expenseTemplate, startMonth, startYear, endMonth?, endYear?)
\* commitOk: whether batch.commit() resolves; a rejected batch writes nothing.
CreateRecurringExpenseCall(template, startMonth, startYear, end, commitOk) ==
    LET who == GetCurrentUserId
        emitted == ExpandExpense(template, nextId, who.userId, startMonth,
                                 startYear, end[1], end[2], today)
    IN  IF ~who.ok
        THEN /\ last' = CallRecord("createRecurringExpense", "error",
                                   "User not authenticated", template,
                                   startMonth, startYear, end[1], end[2], <<>>)
             /\ UNCHANGED <<isAccessingSharedData, expenseStore, nextId>>
        ELSE /\ isAccessingSharedData' = who.shared
             /\ nextId' = nextId + Len(emitted)
             /\ IF commitOk
                THEN /\ expenseStore' = expenseStore \cup Range(emitted)
                     /\ last' = CallRecord("createRecurringExpense", "ok", "",
                                           template, startMonth, startYear,
                                           end[1], end[2], emitted)
                ELSE /\ expenseStore' = expenseStore
                     /\ last' = CallRecord("createRecurringExpense", "error",
                                           "commit failed", template, startMonth,
                                           startYear, end[1], end[2], emitted)

\* one call, from every input
CreateRecurringExpense ==
    /\ pc = "idle"
    /\ \E template \in ExpenseTemplates, startMonth \in EndpointMonths,
          startYear \in Years, end \in EndArgs, commitOk \in BOOLEAN :
        CreateRecurringExpenseCall(template, startMonth, startYear, end, commitOk)
    /\ pc' = "done"
    /\ UNCHANGED <<authVars, sumVars, dashVars, today, incomeStore>>

\* createRecurringIncome(incomeTemplate, startMonth, startYear, endMonth?, endYear?)
\* commitOk: whether batch.commit() resolves; a rejected batch writes nothing.
CreateRecurringIncomeCall(template, startMonth, startYear, end, commitOk) ==
    LET who == GetCurrentUserId
        emitted == ExpandIncome(template, nextId, who.userId, startMonth,
                                startYear, end[1], end[2])
    IN  IF ~who.ok
        THEN /\ last' = CallRecord("createRecurringIncome", "error",
                                   "User not authenticated", template,
                                   startMonth, startYear, end[1], end[2], <<>>)
             /\ UNCHANGED <<isAccessingSharedData, incomeStore, nextId>>
        ELSE /\ isAccessingSharedData' = who.shared
             /\ nextId' = nextId + Len(emitted)
             /\ IF commitOk
                THEN /\ incomeStore' = incomeStore \cup Range(emitted)
                     /\ last' = CallRecord("createRecurringIncome", "ok", "",
                                           template, startMonth, startYear,
                                           end[1], end[2], emitted)
                ELSE /\ incomeStore' = incomeStore
                     /\ last' = CallRecord("createRecurringIncome", "error",
                                           "commit failed", template, startMonth,
                                           startYear, end[1], end[2], emitted)

\* one call, from every input
CreateRecurringIncome ==
    /\ pc = "idle"
    /\ \E template \in IncomeTemplates, startMonth \in EndpointMonths,
          startYear \in Years, end \in EndArgs, commitOk \in BOOLEAN :
        CreateRecurringIncomeCall(template, startMonth, startYear, end, commitOk)
    /\ pc' = "done"
    /\ UNCHANGED <<authVars, sumVars, dashVars, today, expenseStore>>

-----------------------------------------------------------------------------
(* One expand call on empty collections, from every input *)

Init ==
    /\ authUser \in {NoUser, PrimaryUser}
    /\ envPrimaryEmail = PrimaryUser.email
    /\ envPrimaryId = PrimaryUser.uid
    /\ isAccessingSharedData = FALSE
    /\ today \in Todays
    /\ incomeStore = {}
    /\ expenseStore = {}
    /\ nextId = 1
    /\ selectedMonth = today.month
    /\ selectedYear = today.year
    /\ includePending = TRUE
    /\ expensesList = {}
    /\ pageExpenses = {}
    /\ totalIncome = 0
    /\ transactionStore = {}
    /\ summaryStore = {}
    /\ calls = NoCalls
    /\ pc = "idle"
    /\ last = NoCall

Next == CreateRecurringExpense \/ CreateRecurringIncome

Spec == Init /\ [][Next]_vars

-----------------------------------------------------------------------------
(* Income of a month: addOrUpdateIncome, getMonthlyIncome and the          *)
(* dashboard's calculateTotalIncomeWithRecurring.  Amounts are whole       *)
(* currency units.                                                         *)

\* number of documents the income collection may hold
MaxIncome == 2

\* the dashboard opens on the month of today: months of 31, 29, 28 and 30 days
DashTodays == {Date(2024, 1, 15), Date(2024, 2, 15), Date(2025, 2, 15), Date(2024, 6, 1)}

\* <<recurring, frequency>>; "" stands for an absent frequency
IncomeKinds ==
    {<<TRUE, "weekly">>, <<TRUE, "biweekly">>, <<TRUE, "monthly">>, <<TRUE, "once">>,
     <<FALSE, "">>, <<FALSE, "weekly">>}

IncomeInput(kind, amount, isPaid, month, year) ==
    [source |-> "Salary", amount |-> amount, recurring |-> kind[1],
     frequency |-> kind[2], isPaid |-> isPaid, month |-> month, year |-> year]

\* what the income form submits: entries of the current month of every kind,
\* paid and pending, and one entry of another month
IncomeInputs ==
    {IncomeInput(kind, 100, isPaid, today.month, today.year) :
        kind \in IncomeKinds, isPaid \in BOOLEAN}
    \cup {IncomeInput(<<TRUE, "monthly">>, 15, TRUE, today.month, today.year),
          IncomeInput(<<TRUE, "weekly">>, 100, TRUE, 12, 2023)}

\* addOrUpdateIncome(income, id?): id 0 stands for no id.  updateDoc
\* overwrites the given fields of an existing document and fails on a
\* missing one.
AddOrUpdateIncome ==
    /\ \E income \in IncomeInputs, id \in 0..nextId :
        LET who == GetCurrentUserId
            incomeData == IncomeData(income, IF id = 0 THEN nextId ELSE id,
                                     who.userId, income.month, income.year)
        IN  IF ~who.ok
            THEN /\ last' = [NoCall EXCEPT !.op = "addOrUpdateIncome",
                                          !.outcome = "error",
                                          !.error = "User not authenticated"]
                 /\ UNCHANGED <<isAccessingSharedData, incomeStore, nextId>>
            ELSE /\ isAccessingSharedData' = who.shared
                 /\ IF id = 0
                    THEN /\ Cardinality(incomeStore) < MaxIncome
                         /\ incomeStore' = incomeStore \cup {incomeData}
                         /\ nextId' = nextId + 1
                         /\ last' = [NoCall EXCEPT !.op = "addOrUpdateIncome",
                                                  !.outcome = "ok", !.value = nextId]
                    ELSE IF \E d \in incomeStore : d.id = id
                    THEN /\ incomeStore' =
                              {d \in incomeStore : d.id # id} \cup {incomeData}
                         /\ nextId' = nextId
                         /\ last' = [NoCall EXCEPT !.op = "addOrUpdateIncome",
                                                  !.outcome = "ok", !.value = id]
                    ELSE /\ UNCHANGED <<incomeStore, nextId>>
                         /\ last' = [NoCall EXCEPT !.op = "addOrUpdateIncome",
                                                  !.outcome = "error",
                                                  !.error = "not-found"]
    /\ UNCHANGED <<authVars, sumVars, dashVars, today, expenseStore, pc>>

\* getMonthlyIncome, the filtered query
GetMonthlyIncomeQuery(userId, month, year) ==
    {d \in incomeStore : d.userId = userId /\ d.year = year /\ d.month = month}

\* getMonthlyIncome, the fallback: all of the owner's documents, filtered
\* in memory
GetMonthlyIncomeFallback(userId, month, year) ==
    {d \in {x \in incomeStore : x.userId = userId} :
        d.year = year /\ d.month = month}

\* Math.floor(daysInMonth / 7) with rounding up instead
WeeksInMonth_Ceil(daysInMonth) == (daysInMonth + 6) \div 7

\* Math.floor(daysInMonth / 7)
WeeksInMonth(daysInMonth) == daysInMonth \div 7

\* Math.floor(daysInMonth / 14)
BiweeksInMonth(daysInMonth) == daysInMonth \div 14

\* what one entry adds to the total in calculateTotalIncomeWithRecurring
IncomeContribution(income, month, year) ==
    IF income.recurring /\ income.frequency = "weekly"
    THEN income.amount * WeeksInMonth(DaysInMonthOf(year, month))
    ELSE IF income.recurring /\ income.frequency = "biweekly"
    THEN income.amount * BiweeksInMonth(DaysInMonthOf(year, month))
    ELSE income.amount

\* PendingFilter keeping every entry
PendingFilter_All(items, pending) == items

\* .filter(income => includePending || income.isPaid)
PendingFilter(items, pending) == {d \in items : pending \/ d.isPaid}

\* the sum with the entries of one source counted once
TotalIncome_OncePerSource(items, month, year) ==
    LET sources == {d.source : d \in items}
        one(s) == CHOOSE d \in items : d.source = s
        RECURSIVE sum(_)
        sum(ss) == IF ss = {} THEN 0
                   ELSE LET s == CHOOSE x \in ss : TRUE
                        IN  IncomeContribution(one(s), month, year) + sum(ss \ {s})
    IN  sum(sources)

\* incomeData.filter(...).reduce((total, income) => total + ..., 0)
RECURSIVE TotalIncome(_, _, _)
TotalIncome(items, month, year) ==
    IF items = {} THEN 0
    ELSE LET d == CHOOSE x \in items : TRUE
         IN  IncomeContribution(d, month, year) + TotalIncome(items \ {d}, month, year)

\* calculateTotalIncomeWithRecurring(selectedMonth, selectedYear, includePending),
\* run by the dashboard's fetchData and by its includePending effect.
\* indexError: the filtered query fails and getMonthlyIncome falls back.
CalculateTotalIncomeWithRecurring ==
    /\ \E indexError \in BOOLEAN :
        LET who == GetCurrentUserId
            incomeData ==
                IF indexError
                THEN GetMonthlyIncomeFallback(who.userId, selectedMonth, selectedYear)
                ELSE GetMonthlyIncomeQuery(who.userId, selectedMonth, selectedYear)
            total == TotalIncome(PendingFilter(incomeData, includePending),
                                 selectedMonth, selectedYear)
            call == [NoCall EXCEPT !.op = "calculateTotalIncomeWithRecurring",
                                   !.month = selectedMonth, !.year = selectedYear,
                                   !.includePending = includePending]
        IN  IF ~who.ok
            THEN /\ last' = [call EXCEPT !.outcome = "error",
                                         !.error = "User not authenticated"]
                 /\ UNCHANGED isAccessingSharedData
            ELSE /\ isAccessingSharedData' = who.shared
                 /\ last' = [call EXCEPT !.outcome = "ok", !.value = total]
    /\ UNCHANGED <<authVars, sumVars, dashVars, today, incomeStore, expenseStore, nextId, pc>>

\* handleTogglePending: setIncludePending(event.target.checked)
HandleTogglePending ==
    /\ \E checked \in BOOLEAN : includePending' = checked
    /\ UNCHANGED <<authVars, sumVars, isAccessingSharedData, today, incomeStore, expenseStore,
                   nextId, selectedMonth, selectedYear, expensesList, pageExpenses,
                   totalIncome,
                   pc, last>>

InitDashboard ==
    /\ authUser \in {NoUser, PrimaryUser}
    /\ envPrimaryEmail = PrimaryUser.email
    /\ envPrimaryId = PrimaryUser.uid
    /\ isAccessingSharedData = FALSE
    /\ today \in DashTodays
    /\ incomeStore = {}
    /\ expenseStore = {}
    /\ nextId = 1
    /\ selectedMonth = today.month
    /\ selectedYear = today.year
    /\ includePending = TRUE
    /\ expensesList = {}
    /\ pageExpenses = {}
    /\ totalIncome = 0
    /\ transactionStore = {}
    /\ summaryStore = {}
    /\ calls = NoCalls
    /\ pc = "idle"
    /\ last = NoCall

NextDashboard ==
    AddOrUpdateIncome \/ CalculateTotalIncomeWithRecurring \/ HandleTogglePending

SpecDashboard == InitDashboard /\ [][NextDashboard]_vars

-----------------------------------------------------------------------------
(* Monthly summary: getMonthlySummary, calculateAndSaveMonthSummary and    *)
(* the totals the dashboard derives.  A summary call is a sequence of      *)
(* steps, one per await; the dashboard and the charts page can each have   *)
(* one in flight.                                                          *)

\* number of documents the expenses collection holds at the start
MaxExpenses == 2

\* February 2024: 29 days
SummaryToday == Date(2024, 2, 15)

\* a one-off expense as addOrUpdateExpense stores it
ExpenseEntry(id, userId, category, amount, isPaid, month, year) ==
    ExpenseData([category |-> category, subcategory |-> "Bills", amount |-> amount,
                 recurring |-> FALSE, frequency |-> "", dueDayOfMonth |-> 0],
                id, userId, month, year, <<>>, isPaid)

\* expenses entered before the calls under study
SummaryExpenses ==
    {ExpenseEntry(1, PrimaryUser.uid, "fixed", 100, TRUE, 2, 2024),
     ExpenseEntry(2, PrimaryUser.uid, "fixed", 15, FALSE, 2, 2024),
     ExpenseEntry(3, PrimaryUser.uid, "variable", 15, TRUE, 2, 2024),
     ExpenseEntry(4, PrimaryUser.uid, "subscription", 100, FALSE, 2, 2024),
     ExpenseEntry(5, PrimaryUser.uid, "variable", 100, TRUE, 1, 2024)}

\* income entered before the calls under study
SummaryIncome ==
    {IncomeData(IncomeInput(<<TRUE, "weekly">>, 100, TRUE, 2, 2024), 1,
                PrimaryUser.uid, 2, 2024),
     IncomeData(IncomeInput(<<TRUE, "monthly">>, 15, FALSE, 2, 2024), 2,
                PrimaryUser.uid, 2, 2024)}

\* getMonthlyExpensesByCategory, the filtered query
GetMonthlyExpensesByCategoryQuery(userId, month, year, category) ==
    {d \in expenseStore : /\ d.userId = userId /\ d.category = category
                          /\ d.year = year /\ d.month = month}

\* the fallback without the test of the month
GetMonthlyExpensesByCategoryFallback_AnyMonth(userId, month, year, category) ==
    {d \in {x \in expenseStore : x.userId = userId /\ x.category = category} :
        d.year = year}

\* getMonthlyExpensesByCategory, the fallback: the owner's documents of the
\* category, filtered in memory
GetMonthlyExpensesByCategoryFallback(userId, month, year, category) ==
    {d \in {x \in expenseStore : x.userId = userId /\ x.category = category} :
        d.year = year /\ d.month = month}

\* getAllMonthlyExpenses, the filtered query
GetAllMonthlyExpensesQuery(userId, month, year) ==
    {d \in expenseStore : d.userId = userId /\ d.year = year /\ d.month = month}

\* getAllMonthlyExpenses, the fallback
GetAllMonthlyExpensesFallback(userId, month, year) ==
    {d \in {x \in expenseStore : x.userId = userId} :
        d.year = year /\ d.month = month}

\* items.reduce((sum, item) => sum + item.amount, 0)
RECURSIVE SumAmount(_)
SumAmount(items) ==
    IF items = {} THEN 0
    ELSE LET d == CHOOSE x \in items : TRUE
         IN  d.amount + SumAmount(items \ {d})

\* PaidOnly keeping the pending entries too
PaidOnly_All(items) == items

\* .filter(expense => expense.isPaid)
PaidOnly(items) == {d \in items : d.isPaid}

\* the summaries query: where userId, month, year
SummaryQuery(userId, month, year) ==
    {d \in summaryStore : d.userId = userId /\ d.month = month /\ d.year = year}

\* LimitOne that never finds a document
LimitOne_Empty(docs) == {<<>>}

\* limit(1): no document of an empty result, else one of the matching ones
LimitOne(docs) == IF docs = {} THEN {<<>>} ELSE {<<d>> : d \in docs}

\* balance with the subscriptions added instead of subtracted
Balance_AddsSubscriptions(income, fixed, variable, subscriptions) ==
    income - fixed - variable + subscriptions

\* balance = totalIncome - totalFixedExpenses - totalVariableExpenses - totalSubscriptions
Balance(income, fixed, variable, subscriptions) ==
    income - fixed - variable - subscriptions

\* Summary with the paid total of the fixed expenses as their total
Summary_PaidAsTotal(call, id) ==
    [id |-> id, userId |-> call.userId, month |-> call.month, year |-> call.year,
     totalIncome |-> call.totalIncome,
     totalFixedExpenses |-> call.paidFixedExpenses,
     totalVariableExpenses |-> call.totalVariableExpenses,
     totalSubscriptions |-> call.totalSubscriptions,
     paidFixedExpenses |-> call.paidFixedExpenses,
     paidVariableExpenses |-> call.paidVariableExpenses,
     paidSubscriptions |-> call.paidSubscriptions,
     balance |-> Balance(call.totalIncome, call.paidFixedExpenses,
                         call.totalVariableExpenses, call.totalSubscriptions)]

\* the summary object calculateAndSaveMonthSummary builds from its locals,
\* with the id of the document it is written to
Summary(call, id) ==
    [id |-> id, userId |-> call.userId, month |-> call.month, year |-> call.year,
     totalIncome |-> call.totalIncome,
     totalFixedExpenses |-> call.totalFixedExpenses,
     totalVariableExpenses |-> call.totalVariableExpenses,
     totalSubscriptions |-> call.totalSubscriptions,
     paidFixedExpenses |-> call.paidFixedExpenses,
     paidVariableExpenses |-> call.paidVariableExpenses,
     paidSubscriptions |-> call.paidSubscriptions,
     balance |-> Balance(call.totalIncome, call.totalFixedExpenses,
                         call.totalVariableExpenses, call.totalSubscriptions)]

\* the call of c throws
Failed(op, month, year, error) ==
    [IdleCall EXCEPT !.at = "failed", !.op = op, !.month = month, !.year = year,
                     !.error = error]

entryVars == <<incomeStore, expenseStore, transactionStore>>

\* getMonthlySummary(selectedMonth, selectedYear), up to its getDocs
StartGetMonthlySummary(c) ==
    /\ calls[c].at \in {"idle", "returned", "failed"}
    /\ LET who == GetCurrentUserId
           month == selectedMonth
           year == selectedYear
       IN  IF ~who.ok
           THEN /\ calls' = [calls EXCEPT ![c] =
                       Failed("getMonthlySummary", month, year,
                              "User not authenticated")]
                /\ UNCHANGED isAccessingSharedData
           ELSE /\ calls' = [calls EXCEPT ![c] =
                       [IdleCall EXCEPT !.at = "getDocs", !.op = "getMonthlySummary",
                                        !.userId = who.userId, !.month = month,
                                        !.year = year]]
                /\ isAccessingSharedData' = who.shared
    /\ UNCHANGED <<authVars, dashVars, today, entryVars, summaryStore, nextId, pc, last>>

\* calculateAndSaveMonthSummary(selectedMonth, selectedYear) called on its
\* own, up to its first await
StartCalculateAndSaveMonthSummary(c) ==
    /\ calls[c].at \in {"idle", "returned", "failed"}
    /\ LET who == GetCurrentUserId
           month == selectedMonth
           year == selectedYear
       IN  IF ~who.ok
           THEN /\ calls' = [calls EXCEPT ![c] =
                       Failed("calculateAndSaveMonthSummary", month, year,
                              "User not authenticated")]
                /\ UNCHANGED isAccessingSharedData
           ELSE /\ calls' = [calls EXCEPT ![c] =
                       [IdleCall EXCEPT !.at = "income",
                                        !.op = "calculateAndSaveMonthSummary",
                                        !.userId = who.userId, !.month = month,
                                        !.year = year]]
                /\ isAccessingSharedData' = who.shared
    /\ UNCHANGED <<authVars, dashVars, today, entryVars, summaryStore, nextId, pc, last>>

\* getMonthlySummary after its getDocs: the stored summary is returned, or
\* calculateAndSaveMonthSummary is entered and runs up to its first await
GetSummaryDocs(c) ==
    /\ calls[c].at = "getDocs"
    /\ \E querySnapshot \in
            LimitOne(SummaryQuery(calls[c].userId, calls[c].month, calls[c].year)) :
        LET who == GetCurrentUserId
        IN  IF querySnapshot # <<>>
            THEN /\ calls' = [calls EXCEPT ![c].at = "returned",
                                          ![c].result = querySnapshot]
                 /\ UNCHANGED isAccessingSharedData
            ELSE IF ~who.ok
            THEN /\ calls' = [calls EXCEPT ![c] =
                        Failed(calls[c].op, calls[c].month, calls[c].year,
                               "User not authenticated")]
                 /\ UNCHANGED isAccessingSharedData
            ELSE /\ calls' = [calls EXCEPT ![c].at = "income",
                                          ![c].userId = who.userId]
                 /\ isAccessingSharedData' = who.shared
    /\ UNCHANGED <<authVars, dashVars, today, entryVars, summaryStore, nextId, pc, last>>

\* incomeItems = await getMonthlyIncome(month, year), and the total of it
ReadIncome(c) ==
    /\ calls[c].at = "income"
    /\ \E indexError \in BOOLEAN :
        LET call == calls[c]
            incomeItems ==
                IF indexError
                THEN GetMonthlyIncomeFallback(call.userId, call.month, call.year)
                ELSE GetMonthlyIncomeQuery(call.userId, call.month, call.year)
        IN  calls' = [calls EXCEPT ![c].at = "fixed",
                                   ![c].totalIncome = SumAmount(incomeItems)]
    /\ UNCHANGED <<authVars, dashVars, today, entryVars, summaryStore, nextId, pc, last,
                   isAccessingSharedData>>

\* await getMonthlyExpensesByCategory(month, year, category) for the category
\* the call has come to, and the total and the paid total of it
ReadExpenses(c) ==
    /\ calls[c].at \in {"fixed", "variable", "subscription"}
    /\ \E indexError \in BOOLEAN :
        LET call == calls[c]
            expenses ==
                IF indexError
                THEN GetMonthlyExpensesByCategoryFallback(call.userId, call.month,
                                                          call.year, call.at)
                ELSE GetMonthlyExpensesByCategoryQuery(call.userId, call.month,
                                                       call.year, call.at)
            total == SumAmount(expenses)
            paid == SumAmount(PaidOnly(expenses))
        IN  calls' =
              IF call.at = "fixed"
              THEN [calls EXCEPT ![c].at = "variable",
                                 ![c].totalFixedExpenses = total,
                                 ![c].paidFixedExpenses = paid]
              ELSE IF call.at = "variable"
              THEN [calls EXCEPT ![c].at = "subscription",
                                 ![c].totalVariableExpenses = total,
                                 ![c].paidVariableExpenses = paid]
              ELSE [calls EXCEPT ![c].at = "summarySnap",
                                 ![c].totalSubscriptions = total,
                                 ![c].paidSubscriptions = paid]
    /\ UNCHANGED <<authVars, dashVars, today, entryVars, summaryStore, nextId, pc, last,
                   isAccessingSharedData>>

\* summarySnap = await getDocs(summaryQuery)
QuerySummary(c) ==
    /\ calls[c].at = "summarySnap"
    /\ \E summarySnap \in
            LimitOne(SummaryQuery(calls[c].userId, calls[c].month, calls[c].year)) :
        calls' = [calls EXCEPT ![c].at = "write",
                               ![c].summarySnap =
                                   IF summarySnap = <<>> THEN <<>>
                                   ELSE <<summarySnap[1].id>>]
    /\ UNCHANGED <<authVars, dashVars, today, entryVars, summaryStore, nextId, pc, last,
                   isAccessingSharedData>>

\* updateDoc of the document found, or addDoc when none was found; the
\* summary is returned with the id of that document
WriteSummary(c) ==
    /\ calls[c].at = "write"
    /\ LET call == calls[c]
           summaryId == IF call.summarySnap # <<>> THEN call.summarySnap[1] ELSE nextId
           summary == Summary(call, summaryId)
       IN  /\ summaryStore' = {d \in summaryStore : d.id # summaryId} \cup {summary}
           /\ nextId' = IF call.summarySnap # <<>> THEN nextId ELSE nextId + 1
           /\ calls' = [calls EXCEPT ![c].at = "returned", ![c].result = <<summary>>]
    /\ UNCHANGED <<authVars, dashVars, today, entryVars, pc, last, isAccessingSharedData>>

\* getExpenseTotal(expenses, category, includePending)
GetExpenseTotal(expenses, category, pending) ==
    SumAmount(PendingFilter({d \in expenses : d.category = category}, pending))

\* what DashboardPage derives from its state on every render
FixedExpenses == GetExpenseTotal(expensesList, "fixed", includePending)
VariableExpenses == GetExpenseTotal(expensesList, "variable", includePending)
SubscriptionExpenses == GetExpenseTotal(expensesList, "subscription", includePending)
TotalExpenses == FixedExpenses + VariableExpenses + SubscriptionExpenses

\* balance = totalIncome - totalExpenses
DashboardBalance == totalIncome - TotalExpenses

\* fetchData of DashboardPage: the month's income and expenses are read,
\* the expenses are kept, and the total of calculateTotalIncomeWithRecurring
\* is kept.  Its getMonthlySummary call is the call of caller "dashboard"
\* above.  An error is caught and logged.
FetchData ==
    /\ \E incomeIndexError \in BOOLEAN, expenseIndexError \in BOOLEAN :
        LET who == GetCurrentUserId
            expensesData ==
                IF expenseIndexError
                THEN GetAllMonthlyExpensesFallback(who.userId, selectedMonth, selectedYear)
                ELSE GetAllMonthlyExpensesQuery(who.userId, selectedMonth, selectedYear)
            incomeData ==
                IF incomeIndexError
                THEN GetMonthlyIncomeFallback(who.userId, selectedMonth, selectedYear)
                ELSE GetMonthlyIncomeQuery(who.userId, selectedMonth, selectedYear)
            calculatedTotalIncome ==
                TotalIncome(PendingFilter(incomeData, includePending),
                            selectedMonth, selectedYear)
            call == [NoCall EXCEPT !.op = "fetchData",
                                   !.month = selectedMonth, !.year = selectedYear,
                                   !.includePending = includePending]
        IN  IF ~who.ok
            THEN /\ last' = [call EXCEPT !.outcome = "error",
                                         !.error = "User not authenticated"]
                 /\ UNCHANGED <<isAccessingSharedData, expensesList, totalIncome>>
            ELSE /\ isAccessingSharedData' = who.shared
                 /\ expensesList' = expensesData
                 /\ totalIncome' = calculatedTotalIncome
                 /\ last' = [call EXCEPT !.outcome = "ok",
                                         !.value = calculatedTotalIncome]
    /\ UNCHANGED <<authVars, sumVars, today, incomeStore, expenseStore, nextId,
                   selectedMonth, selectedYear, includePending, pageExpenses, pc>>

\* the effect on includePending: with expenses on the page the income total
\* is computed again and kept
RecalculateIncome ==
    /\ expensesList # {}
    /\ \E indexError \in BOOLEAN :
        LET who == GetCurrentUserId
            incomeData ==
                IF indexError
                THEN GetMonthlyIncomeFallback(who.userId, selectedMonth, selectedYear)
                ELSE GetMonthlyIncomeQuery(who.userId, selectedMonth, selectedYear)
            calculatedIncome ==
                TotalIncome(PendingFilter(incomeData, includePending),
                            selectedMonth, selectedYear)
            call == [NoCall EXCEPT !.op = "recalculateIncome",
                                   !.month = selectedMonth, !.year = selectedYear,
                                   !.includePending = includePending]
        IN  IF ~who.ok
            THEN /\ last' = [call EXCEPT !.outcome = "error",
                                         !.error = "User not authenticated"]
                 /\ UNCHANGED <<isAccessingSharedData, totalIncome>>
            ELSE /\ isAccessingSharedData' = who.shared
                 /\ totalIncome' = calculatedIncome
                 /\ last' = [call EXCEPT !.outcome = "ok", !.value = calculatedIncome]
    /\ UNCHANGED <<authVars, sumVars, today, incomeStore, expenseStore, nextId,
                   selectedMonth, selectedYear, includePending, expensesList,
                   pageExpenses, pc>>

InitSummary ==
    /\ authUser \in {NoUser, PrimaryUser}
    /\ envPrimaryEmail = PrimaryUser.email
    /\ envPrimaryId = PrimaryUser.uid
    /\ isAccessingSharedData = FALSE
    /\ today = SummaryToday
    /\ incomeStore \in {s \in SUBSET SummaryIncome : Cardinality(s) <= MaxIncome}
    /\ expenseStore \in {s \in SUBSET SummaryExpenses : Cardinality(s) <= MaxExpenses}
    /\ nextId = Cardinality(SummaryExpenses) + 1
    /\ selectedMonth = today.month
    /\ selectedYear = today.year
    /\ includePending = TRUE
    /\ expensesList = {}
    /\ pageExpenses = {}
    /\ totalIncome = 0
    /\ transactionStore = {}
    /\ summaryStore = {}
    /\ calls = NoCalls
    /\ pc = "idle"
    /\ last = NoCall

NextSummary ==
    \/ \E c \in Callers :
        \/ StartGetMonthlySummary(c)
        \/ GetSummaryDocs(c)
        \/ ReadIncome(c)
        \/ ReadExpenses(c)
        \/ QuerySummary(c)
        \/ WriteSummary(c)
    \/ FetchData
    \/ RecalculateIncome
    \/ HandleTogglePending

SpecSummary == InitSummary /\ [][NextSummary]_vars

-----------------------------------------------------------------------------
(* Deleting: deleteIncome, deleteExpense, deleteTransaction and            *)
(* bulkDeleteRecurringExpenses, over collections that hold entries of two  *)
(* owners.                                                                 *)

\* number of documents the expenses collection holds at the start
MaxStored == 3

\* the template of a monthly subscription
SeriesTemplate ==
    [category |-> "subscription", subcategory |-> "Streaming", amount |-> 15,
     recurring |-> TRUE, frequency |-> "monthly", dueDayOfMonth |-> 1]

\* an occurrence as createRecurringExpense stores it
Occurrence(template, id, userId, month, year) ==
    ExpenseData(template, id, userId, month, year,
                ResolveDueDate(template, year, month), FALSE)

\* three occurrences of the series, and entries that differ from them in
\* one field each
StoredExpenses ==
    {Occurrence(SeriesTemplate, 1, PrimaryUser.uid, 3, 2024),
     Occurrence(SeriesTemplate, 2, PrimaryUser.uid, 6, 2024),
     Occurrence(SeriesTemplate, 3, PrimaryUser.uid, 1, 2025),
     Occurrence([SeriesTemplate EXCEPT !.amount = 100], 4, PrimaryUser.uid, 6, 2024),
     Occurrence([SeriesTemplate EXCEPT !.frequency = "weekly"], 5, PrimaryUser.uid, 6, 2024),
     Occurrence([SeriesTemplate EXCEPT !.dueDayOfMonth = 31], 6, PrimaryUser.uid, 6, 2024),
     Occurrence([SeriesTemplate EXCEPT !.subcategory = "Music"], 7, PrimaryUser.uid, 6, 2024),
     Occurrence([SeriesTemplate EXCEPT !.category = "fixed"], 8, PrimaryUser.uid, 6, 2024),
     Occurrence([SeriesTemplate EXCEPT !.recurring = FALSE], 9, PrimaryUser.uid, 6, 2024),
     Occurrence(SeriesTemplate, 10, PartnerUser.uid, 6, 2024)}

StoredIncome ==
    {IncomeData(IncomeInput(<<TRUE, "monthly">>, 100, TRUE, 6, 2024), 1,
                PrimaryUser.uid, 6, 2024),
     IncomeData(IncomeInput(<<TRUE, "monthly">>, 100, TRUE, 6, 2024), 2,
                PartnerUser.uid, 6, 2024)}

\* a transaction as addTransaction stores it: month and year are those of
\* the date when the caller gives none (0)
TransactionData(id, userId, category, amount, date, month, year) ==
    [id |-> id, userId |-> userId, category |-> category, amount |-> amount,
     date |-> date,
     month |-> IF month # 0 THEN month ELSE date.month,
     year |-> IF year # 0 THEN year ELSE date.year]

StoredTransactions ==
    {TransactionData(1, PrimaryUser.uid, "Groceries", 15, Date(2024, 6, 3), 0, 0),
     TransactionData(2, PartnerUser.uid, "Groceries", 15, Date(2024, 6, 3), 0, 0)}

\* the expense a card passes to bulkDeleteRecurringExpenses
BulkTemplates ==
    {Occurrence(SeriesTemplate, 2, PrimaryUser.uid, 6, 2024),
     Occurrence([SeriesTemplate EXCEPT !.dueDayOfMonth = 31], 6, PrimaryUser.uid, 6, 2024)}

\* <<fromMonth, fromYear>> as passed; 0 stands for an omitted one
Cutoffs == {<<0, 0>>, <<0, 2025>>, <<6, 2024>>, <<1, 2025>>}

\* ids a delete is asked for: of entries of the user, of an entry of the
\* partner in each collection (2, 10), and one that was never stored
DeleteIds == {1, 2, 10, Cardinality(StoredExpenses) + 1}

Stores == <<incomeStore, expenseStore, transactionStore>>

\* DeleteChecked without the ownership check
DeleteChecked_NoOwnerCheck(store, id, userId, notFound, notAuthorized, deleteOk) ==
    IF ~\E d \in store : d.id = id
    THEN [outcome |-> "error", error |-> notFound, store |-> store]
    ELSE IF ~deleteOk
    THEN [outcome |-> "error", error |-> "delete failed", store |-> store]
    ELSE [outcome |-> "ok", error |-> "", store |-> {d \in store : d.id # id}]

\* getDoc, the two checks and deleteDoc of deleteIncome / deleteExpense /
\* deleteTransaction on one collection: the outcome and the collection after.
\* deleteOk: whether deleteDoc resolves.
DeleteChecked(store, id, userId, notFound, notAuthorized, deleteOk) ==
    IF ~\E d \in store : d.id = id
    THEN [outcome |-> "error", error |-> notFound, store |-> store]
    ELSE IF \E d \in store : d.id = id /\ d.userId # userId
    THEN [outcome |-> "error", error |-> notAuthorized, store |-> store]
    ELSE IF ~deleteOk
    THEN [outcome |-> "error", error |-> "delete failed", store |-> store]
    ELSE [outcome |-> "ok", error |-> "", store |-> {d \in store : d.id # id}]

\* the record of a delete call
DeleteCall(op, id, outcome, error) ==
    [NoCall EXCEPT !.op = op, !.id = id, !.outcome = outcome, !.error = error,
                   !.before = Stores]

\* deleteIncome(id)
DeleteIncome ==
    /\ \E id \in DeleteIds, deleteOk \in BOOLEAN :
        LET who == GetCurrentUserId
            done == DeleteChecked(incomeStore, id, who.userId, "Income record not found",
                                  "Not authorized to delete this income record",
                                  deleteOk)
        IN  IF ~who.ok
            THEN /\ last' = DeleteCall("deleteIncome", id, "error", "User not authenticated")
                 /\ UNCHANGED <<isAccessingSharedData, incomeStore>>
            ELSE /\ isAccessingSharedData' = who.shared
                 /\ incomeStore' = done.store
                 /\ last' = DeleteCall("deleteIncome", id, done.outcome, done.error)
    /\ UNCHANGED <<authVars, dashVars, today, expenseStore, sumVars, nextId, pc>>

\* deleteExpense(id)
DeleteExpense ==
    /\ \E id \in DeleteIds, deleteOk \in BOOLEAN :
        LET who == GetCurrentUserId
            done == DeleteChecked(expenseStore, id, who.userId, "Expense not found",
                                  "Not authorized to delete this expense", deleteOk)
        IN  IF ~who.ok
            THEN /\ last' = DeleteCall("deleteExpense", id, "error", "User not authenticated")
                 /\ UNCHANGED <<isAccessingSharedData, expenseStore>>
            ELSE /\ isAccessingSharedData' = who.shared
                 /\ expenseStore' = done.store
                 /\ last' = DeleteCall("deleteExpense", id, done.outcome, done.error)
    /\ UNCHANGED <<authVars, dashVars, today, incomeStore, sumVars, nextId, pc>>

\* deleteTransaction(id)
DeleteTransaction ==
    /\ \E id \in DeleteIds, deleteOk \in BOOLEAN :
        LET who == GetCurrentUserId
            done == DeleteChecked(transactionStore, id, who.userId, "Transaction not found",
                                  "Not authorized to delete this transaction",
                                  deleteOk)
        IN  IF ~who.ok
            THEN /\ last' = DeleteCall("deleteTransaction", id, "error", "User not authenticated")
                 /\ UNCHANGED <<isAccessingSharedData, transactionStore>>
            ELSE /\ isAccessingSharedData' = who.shared
                 /\ transactionStore' = done.store
                 /\ last' = DeleteCall("deleteTransaction", id, done.outcome, done.error)
    /\ UNCHANGED <<authVars, dashVars, today, incomeStore, expenseStore, summaryStore,
                   calls, nextId, pc>>

\* the in-memory test without the comparison of amounts
MatchingExpenses_AnyAmount(userId, templateExpense) ==
    {d \in {x \in expenseStore : /\ x.userId = userId
                                 /\ x.category = templateExpense.category
                                 /\ x.subcategory = templateExpense.subcategory
                                 /\ x.recurring = TRUE} :
        /\ d.frequency = templateExpense.frequency
        /\ d.dueDayOfMonth = templateExpense.dueDayOfMonth}

\* bulkDeleteRecurringExpenses: the query, and of its result the entries
\* with the template's amount, frequency and dueDayOfMonth.  The sort that
\* follows orders deletes of one batch and does not change the set.
MatchingExpenses(userId, templateExpense) ==
    {d \in {x \in expenseStore : /\ x.userId = userId
                                 /\ x.category = templateExpense.category
                                 /\ x.subcategory = templateExpense.subcategory
                                 /\ x.recurring = TRUE} :
        /\ d.amount = templateExpense.amount
        /\ d.frequency = templateExpense.frequency
        /\ d.dueDayOfMonth = templateExpense.dueDayOfMonth}

\* the test of the loop deleting nothing when fromYear is omitted
ToDelete_NeedsYear(expense, deleteAll, fromMonth, fromYear) ==
    \/ deleteAll
    \/ (fromYear # 0 /\ expense.year > fromYear)
    \/ (fromYear # 0 /\ expense.year = fromYear /\ expense.month >= fromMonth)

\* the test of the loop with > in place of >= on the month
ToDelete_AfterMonth(expense, deleteAll, fromMonth, fromYear) ==
    \/ deleteAll
    \/ expense.year > fromYear
    \/ (fromYear # 0 /\ expense.year = fromYear /\ expense.month > fromMonth)

\* the test of the loop: deleteAll || year > (fromYear || 0) ||
\* (year === fromYear && month >= (fromMonth || 0)); an omitted fromYear
\* equals no year
ToDelete(expense, deleteAll, fromMonth, fromYear) ==
    \/ deleteAll
    \/ expense.year > fromYear
    \/ (fromYear # 0 /\ expense.year = fromYear /\ expense.month >= fromMonth)

\* bulkDeleteRecurringExpenses that spares the document of the template
BulkDeleteCall_SparesTemplate(templateExpense, deleteAll, fromMonth, fromYear, commitOk) ==
    LET who == GetCurrentUserId
        matchingExpenses == MatchingExpenses(who.userId, templateExpense)
        deleted == {d \in matchingExpenses : /\ ToDelete(d, deleteAll, fromMonth, fromYear)
                                             /\ d.id # templateExpense.id}
        deleteCount == Cardinality(deleted)
    IN  IF ~who.ok
        THEN [outcome |-> "error", error |-> "User not authenticated", value |-> 0,
              store |-> expenseStore]
        ELSE IF deleteCount > 0 /\ ~commitOk
        THEN [outcome |-> "error", error |-> "commit failed", value |-> 0,
              store |-> expenseStore]
        ELSE [outcome |-> "ok", error |-> "", value |-> deleteCount,
              store |-> expenseStore \ deleted]

\* bulkDeleteRecurringExpenses(templateExpense, deleteAll, fromMonth?, fromYear?):
\* how the call ends, the count it returns and the collection after.
\* commitOk: whether batch.commit() resolves; a rejected batch deletes nothing.
BulkDeleteCall(templateExpense, deleteAll, fromMonth, fromYear, commitOk) ==
    LET who == GetCurrentUserId
        matchingExpenses == MatchingExpenses(who.userId, templateExpense)
        deleted == {d \in matchingExpenses : ToDelete(d, deleteAll, fromMonth, fromYear)}
        deleteCount == Cardinality(deleted)
    IN  IF ~who.ok
        THEN [outcome |-> "error", error |-> "User not authenticated", value |-> 0,
              store |-> expenseStore]
        ELSE IF deleteCount > 0 /\ ~commitOk
        THEN [outcome |-> "error", error |-> "commit failed", value |-> 0,
              store |-> expenseStore]
        ELSE [outcome |-> "ok", error |-> "", value |-> deleteCount,
              store |-> expenseStore \ deleted]

\* bulkDeleteRecurringExpenses called with a template, deleteAll and a cutoff
BulkDeleteRecurringExpenses ==
    /\ \E templateExpense \in BulkTemplates, deleteAll \in BOOLEAN, from \in Cutoffs,
          commitOk \in BOOLEAN :
        LET done == BulkDeleteCall(templateExpense, deleteAll, from[1], from[2], commitOk)
        IN  /\ isAccessingSharedData' =
                  IF GetCurrentUserId.ok THEN GetCurrentUserId.shared
                  ELSE isAccessingSharedData
            /\ expenseStore' = done.store
            /\ last' = [NoCall EXCEPT !.op = "bulkDeleteRecurringExpenses",
                                      !.template = templateExpense,
                                      !.deleteAll = deleteAll,
                                      !.month = from[1], !.year = from[2],
                                      !.before = Stores,
                                      !.outcome = done.outcome, !.error = done.error,
                                      !.value = done.value]
    /\ UNCHANGED <<authVars, dashVars, today, incomeStore, sumVars, nextId, pc>>

InitDelete ==
    /\ authUser \in {NoUser, PrimaryUser}
    /\ envPrimaryEmail = PrimaryUser.email
    /\ envPrimaryId = PrimaryUser.uid
    /\ isAccessingSharedData = FALSE
    /\ today = SummaryToday
    /\ incomeStore = StoredIncome
    /\ expenseStore \in {s \in SUBSET StoredExpenses : Cardinality(s) <= MaxStored}
    /\ transactionStore = StoredTransactions
    /\ nextId = Cardinality(StoredExpenses) + 1
    /\ selectedMonth = today.month
    /\ selectedYear = today.year
    /\ includePending = TRUE
    /\ expensesList = {}
    /\ pageExpenses = {}
    /\ totalIncome = 0
    /\ summaryStore = {}
    /\ calls = NoCalls
    /\ pc = "idle"
    /\ last = NoCall

NextDelete ==
    DeleteIncome \/ DeleteExpense \/ DeleteTransaction \/ BulkDeleteRecurringExpenses

SpecDelete == InitDelete /\ [][NextDelete]_vars

-----------------------------------------------------------------------------
(* Whose data a call works on: sign-in and sign-out, the sharing           *)
(* configuration, and the calls that create and read entries.              *)

\* number of documents the transactions collection may hold
MaxTransactions == 1

\* the day the entries of this part are made on: 1 June 2024
EntryToday == Date(2024, 6, 1)

\* what the expense form submits: a one-off expense of the current month
\* with a due date, paid or pending
ExpenseInputs ==
    {[category |-> "fixed", subcategory |-> "Rent", amount |-> 100,
      recurring |-> FALSE, frequency |-> "", dueDayOfMonth |-> 0,
      dueDate |-> <<Date(2024, 6, 20)>>, isPaid |-> isPaid,
      month |-> 6, year |-> 2024] : isPaid \in BOOLEAN}

\* updateDoc that writes the fields to every document of the collection
UpdateDoc_All(store, id, data) ==
    {[d EXCEPT !.userId = data.userId, !.isPaid = data.isPaid] : d \in store}

\* updateDoc(docRef, data): the document with the id takes the fields
UpdateDoc(store, id, data) == {d \in store : d.id # id} \cup {data}

\* ids the expense form passes: none (0), the id of a one-off entry it edits,
\* and an id no document has
FormIds == {0, nextId} \cup {d.id : d \in {x \in expenseStore : ~x.recurring}}

\* addOrUpdateExpense(expense, id?): id 0 stands for no id
AddOrUpdateExpense ==
    /\ \E expense \in ExpenseInputs, id \in FormIds :
        LET who == GetCurrentUserId
            expenseData == ExpenseData(expense, IF id = 0 THEN nextId ELSE id,
                                       who.userId, expense.month, expense.year,
                                       expense.dueDate, expense.isPaid)
            call == [NoCall EXCEPT !.op = "addOrUpdateExpense", !.id = id]
        IN  IF ~who.ok
            THEN /\ last' = [call EXCEPT !.outcome = "error",
                                         !.error = "User not authenticated"]
                 /\ UNCHANGED <<isAccessingSharedData, expenseStore, nextId>>
            ELSE /\ isAccessingSharedData' = who.shared
                 /\ IF id = 0
                    THEN /\ Cardinality(expenseStore) < MaxExpenses
                         /\ expenseStore' = expenseStore \cup {expenseData}
                         /\ nextId' = nextId + 1
                         /\ last' = [call EXCEPT !.outcome = "ok", !.value = nextId]
                    ELSE IF \E d \in expenseStore : d.id = id
                    THEN /\ expenseStore' = UpdateDoc(expenseStore, id, expenseData)
                         /\ nextId' = nextId
                         /\ last' = [call EXCEPT !.outcome = "ok", !.value = id]
                    ELSE /\ UNCHANGED <<expenseStore, nextId>>
                         /\ last' = [call EXCEPT !.outcome = "error",
                                                 !.error = "not-found"]
    /\ UNCHANGED <<authVars, sumVars, dashVars, today, incomeStore, pc>>

\* addTransaction(transaction) as the transaction form calls it: month and
\* year are omitted and taken from the date, which is today
AddTransaction ==
    /\ LET who == GetCurrentUserId
           transactionData == TransactionData(nextId, who.userId, "Groceries", 15,
                                              today, 0, 0)
           call == [NoCall EXCEPT !.op = "addTransaction"]
       IN  IF ~who.ok
           THEN /\ last' = [call EXCEPT !.outcome = "error",
                                        !.error = "User not authenticated"]
                /\ UNCHANGED <<isAccessingSharedData, transactionStore, nextId>>
           ELSE /\ Cardinality(transactionStore) < MaxTransactions
                /\ isAccessingSharedData' = who.shared
                /\ transactionStore' = transactionStore \cup {transactionData}
                /\ nextId' = nextId + 1
                /\ last' = [call EXCEPT !.outcome = "ok", !.value = nextId]
    /\ UNCHANGED <<authVars, dashVars, today, incomeStore, expenseStore, summaryStore,
                   calls, pc>>

\* how a getDocs can end: it resolves, or it rejects with the gateway's
\* code: 'failed-precondition' is the missing-index condition, 'unavailable'
\* stands for every other failure
GatewayErrors == {"failed-precondition", "unavailable"}
GetDocsEnds == {"ok"} \cup GatewayErrors

\* try { getDocs(filtered query) ... return } catch (indexError) { getDocs(broader
\* query) ... return } inside try { ... } catch (error) { throw error }: what the
\* read returns or throws, given how each getDocs ends and what it yields
ReadWithFallback(queryEnd, fallbackEnd, queryResult, fallbackResult) ==
    IF queryEnd = "ok"
    THEN [outcome |-> "ok", error |-> "", result |-> queryResult,
          query |-> queryEnd, fallback |-> "none"]
    ELSE IF fallbackEnd = "ok"
    THEN [outcome |-> "ok", error |-> "", result |-> fallbackResult,
          query |-> queryEnd, fallback |-> fallbackEnd]
    ELSE [outcome |-> "error", error |-> fallbackEnd, result |-> {},
          query |-> queryEnd, fallback |-> fallbackEnd]

\* the record of a month-scoped read that got past owner resolution
ReadCall(call, read) ==
    [call EXCEPT !.outcome = read.outcome, !.error = read.error,
                 !.result = read.result, !.query = read.query,
                 !.fallback = read.fallback]

\* getMonthlyTransactionsByCategory(month, year, category?), the filtered
\* query; "" stands for an omitted category
GetMonthlyTransactionsQuery(userId, month, year, category) ==
    {d \in transactionStore :
        /\ d.userId = userId /\ d.year = year /\ d.month = month
        /\ (category # "" => d.category = category)}

\* getMonthlyTransactionsByCategory, the fallback
GetMonthlyTransactionsFallback(userId, month, year, category) ==
    {d \in {x \in transactionStore : x.userId = userId} :
        /\ d.year = year /\ d.month = month
        /\ (category = "" \/ d.category = category)}

\* orderBy('date', 'desc') of the filtered query: the records in an order of
\* non-increasing date; records of one date come in the order of their
\* document names, which is any order of their ids here
OrderByDateDesc(docs) ==
    {seq \in [1..Cardinality(docs) -> docs] :
        /\ Range(seq) = docs
        /\ \A k \in 1..(Len(seq) - 1) : DateLE(seq[k + 1].date, seq[k].date)}

\* transactions.sort((a, b) => dateB.getTime() - dateA.getTime()) of the
\* fallback: a record that no other one is later than comes first, then the
\* rest sorted the same way
RECURSIVE SortByDateDesc(_)
SortByDateDesc(docs) ==
    IF docs = {} THEN {<<>>}
    ELSE UNION {{<<d>> \o rest : rest \in SortByDateDesc(docs \ {d})} :
                   d \in {x \in docs : \A y \in docs : DateLE(y.date, x.date)}}

\* getMonthlyTransactionsByCategory(selectedMonth, selectedYear, category?)
GetMonthlyTransactionsByCategory ==
    /\ \E category \in {"", "Groceries"}, queryEnd \in GetDocsEnds,
          fallbackEnd \in GetDocsEnds :
        LET who == GetCurrentUserId
            read == ReadWithFallback(queryEnd, fallbackEnd,
                        GetMonthlyTransactionsQuery(who.userId, selectedMonth,
                                                    selectedYear, category),
                        GetMonthlyTransactionsFallback(who.userId, selectedMonth,
                                                       selectedYear, category))
            orders == IF read.outcome # "ok" THEN {<<>>}
                      ELSE IF read.fallback = "none" THEN OrderByDateDesc(read.result)
                      ELSE SortByDateDesc(read.result)
            call == [NoCall EXCEPT !.op = "getMonthlyTransactionsByCategory",
                                   !.month = selectedMonth, !.year = selectedYear,
                                   !.category = category]
        IN  IF ~who.ok
            THEN /\ last' = [call EXCEPT !.outcome = "error",
                                         !.error = "User not authenticated"]
                 /\ UNCHANGED isAccessingSharedData
            ELSE /\ isAccessingSharedData' = who.shared
                 /\ \E transactions \in orders :
                        last' = [ReadCall(call, read) EXCEPT !.ordered = transactions]
    /\ UNCHANGED <<authVars, sumVars, dashVars, today, incomeStore, expenseStore,
                   nextId, pc>>

\* getMonthlyIncome(selectedMonth, selectedYear)
GetMonthlyIncome ==
    /\ \E queryEnd \in GetDocsEnds, fallbackEnd \in GetDocsEnds :
        LET who == GetCurrentUserId
            read == ReadWithFallback(queryEnd, fallbackEnd,
                        GetMonthlyIncomeQuery(who.userId, selectedMonth, selectedYear),
                        GetMonthlyIncomeFallback(who.userId, selectedMonth, selectedYear))
            call == [NoCall EXCEPT !.op = "getMonthlyIncome",
                                   !.month = selectedMonth, !.year = selectedYear]
        IN  IF ~who.ok
            THEN /\ last' = [call EXCEPT !.outcome = "error",
                                         !.error = "User not authenticated"]
                 /\ UNCHANGED isAccessingSharedData
            ELSE /\ isAccessingSharedData' = who.shared
                 /\ last' = ReadCall(call, read)
    /\ UNCHANGED <<authVars, sumVars, dashVars, today, incomeStore, expenseStore,
                   nextId, pc>>

\* getMonthlyExpensesByCategory(selectedMonth, selectedYear, category)
GetMonthlyExpensesByCategory ==
    /\ \E category \in {"fixed", "variable", "subscription"},
          queryEnd \in GetDocsEnds, fallbackEnd \in GetDocsEnds :
        LET who == GetCurrentUserId
            read == ReadWithFallback(queryEnd, fallbackEnd,
                        GetMonthlyExpensesByCategoryQuery(who.userId, selectedMonth,
                                                          selectedYear, category),
                        GetMonthlyExpensesByCategoryFallback(who.userId, selectedMonth,
                                                             selectedYear, category))
            call == [NoCall EXCEPT !.op = "getMonthlyExpensesByCategory",
                                   !.month = selectedMonth, !.year = selectedYear,
                                   !.category = category]
        IN  IF ~who.ok
            THEN /\ last' = [call EXCEPT !.outcome = "error",
                                         !.error = "User not authenticated"]
                 /\ UNCHANGED isAccessingSharedData
            ELSE /\ isAccessingSharedData' = who.shared
                 /\ last' = ReadCall(call, read)
    /\ UNCHANGED <<authVars, sumVars, dashVars, today, incomeStore, expenseStore,
                   nextId, pc>>

\* getAllMonthlyExpenses(selectedMonth, selectedYear)
GetAllMonthlyExpenses ==
    /\ \E queryEnd \in GetDocsEnds, fallbackEnd \in GetDocsEnds :
        LET who == GetCurrentUserId
            read == ReadWithFallback(queryEnd, fallbackEnd,
                        GetAllMonthlyExpensesQuery(who.userId, selectedMonth, selectedYear),
                        GetAllMonthlyExpensesFallback(who.userId, selectedMonth, selectedYear))
            call == [NoCall EXCEPT !.op = "getAllMonthlyExpenses",
                                   !.month = selectedMonth, !.year = selectedYear]
        IN  IF ~who.ok
            THEN /\ last' = [call EXCEPT !.outcome = "error",
                                         !.error = "User not authenticated"]
                 /\ UNCHANGED isAccessingSharedData
            ELSE /\ isAccessingSharedData' = who.shared
                 /\ last' = ReadCall(call, read)
    /\ UNCHANGED <<authVars, sumVars, dashVars, today, incomeStore, expenseStore,
                   nextId, pc>>

\* signIn / logout: auth.currentUser becomes another user or none
AuthStateChanged ==
    /\ \E user \in {NoUser, PrimaryUser, PartnerUser} :
        /\ user # authUser
        /\ authUser' = user
    /\ last' = [NoCall EXCEPT !.op = "authStateChanged"]
    /\ UNCHANGED <<envPrimaryEmail, envPrimaryId, isAccessingSharedData, sumVars,
                   dashVars, today, incomeStore, expenseStore, nextId, pc>>

\* any user or none, sharing configured, half configured or not configured,
\* and an income entry of each of the two users
InitAuth ==
    /\ authUser \in {NoUser, PrimaryUser, PartnerUser}
    /\ envPrimaryEmail \in {"", PrimaryUser.email}
    /\ envPrimaryId \in {"", PrimaryUser.uid}
    /\ isAccessingSharedData = FALSE
    /\ today = EntryToday
    /\ incomeStore = StoredIncome
    /\ expenseStore = {}
    /\ nextId = Cardinality(StoredIncome) + 1
    /\ selectedMonth = today.month
    /\ selectedYear = today.year
    /\ includePending = TRUE
    /\ expensesList = {}
    /\ pageExpenses = {}
    /\ totalIncome = 0
    /\ transactionStore = {}
    /\ summaryStore = {}
    /\ calls = NoCalls
    /\ pc = "idle"
    /\ last = NoCall

NextAuth ==
    \/ AuthStateChanged
    \/ AddOrUpdateExpense
    \/ AddTransaction
    \/ GetAllMonthlyExpenses
    \/ CalculateTotalIncomeWithRecurring
    \/ GetMonthlyTransactionsByCategory

SpecAuth == InitAuth /\ [][NextAuth]_vars

-----------------------------------------------------------------------------
(* Entries over time: entries are made, read, summarised, rewritten and    *)
(* deleted while the days pass.                                            *)

\* the days the calls are made on: before and after the due dates of June
EntryDays == {EntryToday, Date(2024, 7, 2)}

\* the series the expense form asks for: monthly, due on the first
SeriesInput ==
    [category |-> SeriesTemplate.category, subcategory |-> SeriesTemplate.subcategory,
     amount |-> SeriesTemplate.amount, recurring |-> TRUE,
     frequency |-> SeriesTemplate.frequency, isPaid |-> FALSE, dueDate |-> <<>>,
     dueDayOfMonth |-> SeriesTemplate.dueDayOfMonth]

\* createRecurringExpense(SeriesInput, 6, 2024, 8, 2024), once
CreateRecurringSeries ==
    /\ pc = "idle"
    /\ \E commitOk \in BOOLEAN :
        CreateRecurringExpenseCall(SeriesInput, 6, 2024, <<8, 2024>>, commitOk)
    /\ pc' = "done"
    /\ UNCHANGED <<authVars, sumVars, dashVars, today, incomeStore>>

\* new Date() gives a later day
DayPasses ==
    /\ \E day \in EntryDays :
        /\ DateLE(today, day) /\ day # today
        /\ today' = day
    /\ UNCHANGED <<authVars, sumVars, dashVars, isAccessingSharedData, incomeStore,
                   expenseStore, nextId, pc, last>>

\* the primary user's session over a collection that holds an entry of the
\* partner
InitEntries ==
    /\ authUser \in {NoUser, PrimaryUser}
    /\ envPrimaryEmail = PrimaryUser.email
    /\ envPrimaryId = PrimaryUser.uid
    /\ isAccessingSharedData = FALSE
    /\ today = EntryToday
    /\ incomeStore = {}
    /\ expenseStore = {Occurrence(SeriesTemplate, 10, PartnerUser.uid, 6, 2024)}
    /\ nextId = 1
    /\ selectedMonth = today.month
    /\ selectedYear = today.year
    /\ includePending = TRUE
    /\ expensesList = {}
    /\ pageExpenses = {}
    /\ totalIncome = 0
    /\ transactionStore = {}
    /\ summaryStore = {}
    /\ calls = NoCalls
    /\ pc = "idle"
    /\ last = NoCall

NextEntries ==
    \/ AddOrUpdateExpense
    \/ GetAllMonthlyExpenses
    \/ DeleteExpense
    \/ CreateRecurringSeries
    \/ DayPasses
    \/ \E c \in {"dashboard"} :
        \/ StartGetMonthlySummary(c)
        \/ GetSummaryDocs(c)
        \/ ReadIncome(c)
        \/ ReadExpenses(c)
        \/ QuerySummary(c)
        \/ WriteSummary(c)

SpecEntries == InitEntries /\ [][NextEntries]_vars

-----------------------------------------------------------------------------
(* Entries and the stored summary: entries are created, rewritten and      *)
(* deleted between summary calls and explicit recomputations.              *)

\* the primary user's session in June 2024 over an income collection that
\* holds an entry of each of the two users
InitStale ==
    /\ authUser \in {NoUser, PrimaryUser}
    /\ envPrimaryEmail = PrimaryUser.email
    /\ envPrimaryId = PrimaryUser.uid
    /\ isAccessingSharedData = FALSE
    /\ today = EntryToday
    /\ incomeStore = StoredIncome
    /\ expenseStore = {}
    /\ nextId = Cardinality(StoredIncome) + 1
    /\ selectedMonth = today.month
    /\ selectedYear = today.year
    /\ includePending = TRUE
    /\ expensesList = {}
    /\ pageExpenses = {}
    /\ totalIncome = 0
    /\ transactionStore = {}
    /\ summaryStore = {}
    /\ calls = NoCalls
    /\ pc = "idle"
    /\ last = NoCall

NextStale ==
    \/ AddOrUpdateExpense
    \/ DeleteIncome
    \/ \E c \in {"dashboard"} :
        \/ StartGetMonthlySummary(c)
        \/ StartCalculateAndSaveMonthSummary(c)
        \/ GetSummaryDocs(c)
        \/ ReadIncome(c)
        \/ ReadExpenses(c)
        \/ QuerySummary(c)
        \/ WriteSummary(c)

SpecStale == InitStale /\ [][NextStale]_vars

-----------------------------------------------------------------------------
(* Month-scoped reads: each read is made with every way its filtered query *)
(* and its fallback query can end, over collections that hold entries of   *)
(* several months and of two owners.                                       *)

\* income of June and July 2024 and of June 2025
ReadsIncome ==
    StoredIncome \cup
    {IncomeData(IncomeInput(<<TRUE, "monthly">>, 15, TRUE, 7, 2024), 3,
                PrimaryUser.uid, 7, 2024),
     IncomeData(IncomeInput(<<FALSE, "">>, 15, FALSE, 6, 2025), 4,
                PrimaryUser.uid, 6, 2025)}

\* transactions of June 2024, two of them of one day, of July 2024 and of
\* June 2025
ReadsTransactions ==
    StoredTransactions \cup
    {TransactionData(3, PrimaryUser.uid, "Groceries", 100, Date(2024, 6, 10), 0, 0),
     TransactionData(4, PrimaryUser.uid, "Fuel", 15, Date(2024, 6, 10), 0, 0),
     TransactionData(5, PrimaryUser.uid, "Groceries", 15, Date(2024, 7, 1), 0, 0),
     TransactionData(6, PrimaryUser.uid, "Groceries", 15, Date(2025, 6, 3), 0, 0)}

InitReads ==
    /\ authUser \in {NoUser, PrimaryUser, PartnerUser}
    /\ envPrimaryEmail = PrimaryUser.email
    /\ envPrimaryId = PrimaryUser.uid
    /\ isAccessingSharedData = FALSE
    /\ today \in EntryDays
    /\ incomeStore = ReadsIncome
    /\ expenseStore \in {s \in SUBSET StoredExpenses : Cardinality(s) <= MaxStored}
    /\ transactionStore = ReadsTransactions
    /\ nextId = Cardinality(StoredExpenses) + 1
    /\ selectedMonth = today.month
    /\ selectedYear = today.year
    /\ includePending = TRUE
    /\ expensesList = {}
    /\ pageExpenses = {}
    /\ totalIncome = 0
    /\ summaryStore = {}
    /\ calls = NoCalls
    /\ pc = "idle"
    /\ last = NoCall

NextReads ==
    \/ GetMonthlyIncome
    \/ GetAllMonthlyExpenses
    \/ GetMonthlyExpensesByCategory
    \/ GetMonthlyTransactionsByCategory

SpecReads == InitReads /\ [][NextReads]_vars

-----------------------------------------------------------------------------
(* Series: a recurring income and a recurring expense are created in one   *)
(* batch each, totalled by the dashboard, and deleted one by one or in     *)
(* bulk.                                                                   *)

\* the income series the income form asks for: weekly, received
IncomeSeriesInput ==
    [source |-> "Salary", amount |-> 100, recurring |-> TRUE,
     frequency |-> "weekly", isPaid |-> TRUE]

\* createRecurringIncome(IncomeSeriesInput, 6, 2024, 7, 2024), once
CreateRecurringIncomeSeries ==
    /\ pc = "idle"
    /\ \E commitOk \in BOOLEAN :
        CreateRecurringIncomeCall(IncomeSeriesInput, 6, 2024, <<7, 2024>>, commitOk)
    /\ pc' = "done"
    /\ UNCHANGED <<authVars, sumVars, dashVars, today, expenseStore>>

\* expenses entered before: entries of the two series a bulk delete is
\* asked for, one of another amount and one of the partner
SeriesStored == {d \in StoredExpenses : d.id \in {1, 2, 3, 4, 6, 10}}

\* the dashboard is opened in June or in July 2024, over expenses entered
\* before
InitSeries ==
    /\ authUser \in {NoUser, PrimaryUser}
    /\ envPrimaryEmail = PrimaryUser.email
    /\ envPrimaryId = PrimaryUser.uid
    /\ isAccessingSharedData = FALSE
    /\ today \in EntryDays
    /\ incomeStore = {}
    /\ expenseStore \in {s \in SUBSET SeriesStored : Cardinality(s) <= MaxStored}
    /\ nextId = Cardinality(StoredExpenses) + 1
    /\ selectedMonth = today.month
    /\ selectedYear = today.year
    /\ includePending = TRUE
    /\ expensesList = {}
    /\ pageExpenses = {}
    /\ totalIncome = 0
    /\ transactionStore = {}
    /\ summaryStore = {}
    /\ calls = NoCalls
    /\ pc = "idle"
    /\ last = NoCall

NextSeries ==
    \/ CreateRecurringIncomeSeries
    \/ CreateRecurringSeries
    \/ BulkDeleteRecurringExpenses
    \/ DeleteIncome
    \/ CalculateTotalIncomeWithRecurring

SpecSeries == InitSeries /\ [][NextSeries]_vars

-----------------------------------------------------------------------------
(* The expenses page: the list it fetched, and the handlers of a card and  *)
(* of a row of the list.  selectedMonth and selectedYear are the page's.   *)

\* number of status changes made on the page
MaxStatusChanges == 1

\* expenses stored before the page is opened: a series with entries in March
\* 2024, June 2024 and January 2025, an entry of June 2024 that is not
\* recurring, and an entry of the partner
PageStored == {d \in StoredExpenses : d.id \in {1, 2, 3, 9, 10}}

\* fetchExpenses: setExpenses(await getAllMonthlyExpenses(selectedMonth,
\* selectedYear)); an error is logged and leaves the list as it was
FetchExpenses ==
    /\ \E queryEnd \in GetDocsEnds, fallbackEnd \in GetDocsEnds :
        LET who == GetCurrentUserId
            read == ReadWithFallback(queryEnd, fallbackEnd,
                        GetAllMonthlyExpensesQuery(who.userId, selectedMonth, selectedYear),
                        GetAllMonthlyExpensesFallback(who.userId, selectedMonth, selectedYear))
            call == [NoCall EXCEPT !.op = "fetchExpenses",
                                   !.month = selectedMonth, !.year = selectedYear]
        IN  IF ~who.ok
            THEN /\ last' = [call EXCEPT !.outcome = "error",
                                         !.error = "User not authenticated"]
                 /\ UNCHANGED <<isAccessingSharedData, pageExpenses>>
            ELSE /\ isAccessingSharedData' = who.shared
                 /\ pageExpenses' = IF read.outcome = "ok" THEN read.result
                                    ELSE pageExpenses
                 /\ last' = [call EXCEPT !.outcome = read.outcome,
                                         !.error = read.error,
                                         !.result = read.result]
    /\ UNCHANGED <<authVars, sumVars, today, incomeStore, expenseStore, nextId,
                   selectedMonth, selectedYear, includePending, expensesList,
                   totalIncome, pc>>

DeleteTypes == {"single", "future", "all"}

\* ExpenseCard.handleConfirmDelete on the card of an expense of the list,
\* with the page's onDelete: setExpenses(expenses.filter(...)) and
\* deleteExpense(id).
\* commitOk: whether batch.commit() resolves; deleteOk: whether deleteDoc does.
HandleConfirmDelete ==
    /\ \E expense \in pageExpenses, deleteType \in DeleteTypes,
          commitOk \in BOOLEAN, deleteOk \in BOOLEAN :
        LET who == GetCurrentUserId
            bulkCalled == deleteType # "single" /\ expense.recurring
            from == IF deleteType = "future" THEN <<expense.month, expense.year>>
                    ELSE <<0, 0>>
            bulk == BulkDeleteCall(expense, deleteType = "all", from[1], from[2], commitOk)
            afterBulk == IF bulkCalled THEN bulk.store ELSE expenseStore
            onDeleteCalled == deleteType = "single" \/ (bulkCalled /\ bulk.outcome = "ok")
            single ==
                IF ~who.ok
                THEN [outcome |-> "error", error |-> "User not authenticated",
                      store |-> afterBulk]
                ELSE DeleteChecked(afterBulk, expense.id, who.userId, "Expense not found",
                                   "Not authorized to delete this expense", deleteOk)
        IN  /\ isAccessingSharedData' = IF who.ok THEN who.shared ELSE isAccessingSharedData
            /\ expenseStore' = IF onDeleteCalled THEN single.store ELSE afterBulk
            /\ pageExpenses' = IF onDeleteCalled
                               THEN {d \in pageExpenses : d.id # expense.id}
                               ELSE pageExpenses
            /\ last' = [NoCall EXCEPT
                          !.op = "handleConfirmDelete", !.deleteType = deleteType,
                          !.template = expense, !.id = expense.id,
                          !.deleteAll = (deleteType = "all"),
                          !.month = from[1], !.year = from[2],
                          !.before = Stores,
                          !.bulk = IF bulkCalled THEN bulk.outcome ELSE "none",
                          !.value = IF bulkCalled THEN bulk.value ELSE 0,
                          !.result = afterBulk,
                          !.outcome = IF onDeleteCalled THEN single.outcome ELSE "none",
                          !.error = IF onDeleteCalled THEN single.error
                                    ELSE IF bulkCalled THEN bulk.error ELSE ""]
    /\ UNCHANGED <<authVars, sumVars, today, incomeStore, nextId, selectedMonth,
                   selectedYear, includePending, expensesList, totalIncome, pc>>

\* handleStatusChange passing the id of the row to addOrUpdateExpense
HandleStatusChange_WithId ==
    /\ nextId <= Cardinality(StoredExpenses) + MaxStatusChanges
    /\ \E expenseToUpdate \in pageExpenses, newStatus \in {"paid", "pending"} :
        LET who == GetCurrentUserId
            id == expenseToUpdate.id
            expenseData == ExpenseData(expenseToUpdate, id, who.userId,
                                       expenseToUpdate.month, expenseToUpdate.year,
                                       expenseToUpdate.dueDate, newStatus = "paid")
            call == [NoCall EXCEPT !.op = "handleStatusChange", !.id = id,
                                   !.template = expenseToUpdate,
                                   !.status = newStatus, !.before = Stores]
        IN  /\ pageExpenses' =
                  {IF d.id = id THEN [d EXCEPT !.isPaid = (newStatus = "paid")] ELSE d :
                      d \in pageExpenses}
            /\ IF ~who.ok \/ ~\E d \in expenseStore : d.id = id
               THEN /\ last' = [call EXCEPT !.outcome = "error"]
                    /\ UNCHANGED <<isAccessingSharedData, expenseStore, nextId>>
               ELSE /\ isAccessingSharedData' = who.shared
                    /\ expenseStore' = UpdateDoc(expenseStore, id, expenseData)
                    /\ nextId' = nextId
                    /\ last' = [call EXCEPT !.outcome = "ok", !.value = id]
    /\ UNCHANGED <<authVars, sumVars, today, incomeStore, selectedMonth, selectedYear,
                   includePending, expensesList, totalIncome, pc>>

\* ExpenseList.handleStatusChange on the row of an expense of the list, with
\* the page's onStatusChange: the list shows the new status, and
\* addOrUpdateExpense({...expenseToUpdate, isPaid}) is called with no id and
\* not awaited.  At most MaxStatusChanges status changes are followed.
HandleStatusChange ==
    /\ nextId <= Cardinality(StoredExpenses) + MaxStatusChanges
    /\ \E expenseToUpdate \in pageExpenses, newStatus \in {"paid", "pending"} :
        LET who == GetCurrentUserId
            id == expenseToUpdate.id
            expenseData == ExpenseData(expenseToUpdate, nextId, who.userId,
                                       expenseToUpdate.month, expenseToUpdate.year,
                                       expenseToUpdate.dueDate, newStatus = "paid")
            call == [NoCall EXCEPT !.op = "handleStatusChange", !.id = id,
                                   !.template = expenseToUpdate,
                                   !.status = newStatus, !.before = Stores]
        IN  /\ pageExpenses' =
                  {IF d.id = id THEN [d EXCEPT !.isPaid = (newStatus = "paid")] ELSE d :
                      d \in pageExpenses}
            /\ IF ~who.ok
               THEN /\ last' = [call EXCEPT !.outcome = "error",
                                            !.error = "User not authenticated"]
                    /\ UNCHANGED <<isAccessingSharedData, expenseStore, nextId>>
               ELSE /\ isAccessingSharedData' = who.shared
                    /\ expenseStore' = expenseStore \cup {expenseData}
                    /\ nextId' = nextId + 1
                    /\ last' = [call EXCEPT !.outcome = "ok", !.value = nextId]
    /\ UNCHANGED <<authVars, sumVars, today, incomeStore, selectedMonth, selectedYear,
                   includePending, expensesList, totalIncome, pc>>

\* the page is opened on 1 June 2024 by the primary user or by none
InitPage ==
    /\ authUser \in {NoUser, PrimaryUser}
    /\ envPrimaryEmail = PrimaryUser.email
    /\ envPrimaryId = PrimaryUser.uid
    /\ isAccessingSharedData = FALSE
    /\ today = EntryToday
    /\ incomeStore = {}
    /\ expenseStore \in {s \in SUBSET PageStored : Cardinality(s) <= MaxStored}
    /\ nextId = Cardinality(StoredExpenses) + 1
    /\ selectedMonth = today.month
    /\ selectedYear = today.year
    /\ includePending = TRUE
    /\ expensesList = {}
    /\ pageExpenses = {}
    /\ totalIncome = 0
    /\ transactionStore = {}
    /\ summaryStore = {}
    /\ calls = NoCalls
    /\ pc = "idle"
    /\ last = NoCall

NextPage ==
    \/ FetchExpenses
    \/ HandleConfirmDelete
    \/ HandleStatusChange

SpecPage == InitPage /\ [][NextPage]_vars

-----------------------------------------------------------------------------
(* Properties of one expand call *)

IsExpand == last.op \in {"createRecurringExpense", "createRecurringIncome"}

\* the call got past owner resolution and built its batch
Expanded == IsExpand /\ last.error # "User not authenticated"

Committed == IsExpand /\ last.outcome = "ok"

StoreOfCall ==
    IF last.op = "createRecurringExpense" THEN expenseStore ELSE incomeStore

\* the end of the range the call works with: the arguments, or December of
\* the start year when they are omitted
RangeEndMonth == IF last.endMonth = 0 \/ last.endYear = 0 THEN 12 ELSE last.endMonth
RangeEndYear == IF last.endMonth = 0 \/ last.endYear = 0 THEN last.startYear ELSE last.endYear

\* (y1, m1) is a later month than (y2, m2)
Later(y1, m1, y2, m2) == y1 > y2 \/ (y1 = y2 /\ m1 > m2)

StartNotBeforeEnd ==
    ~Later(RangeEndYear, RangeEndMonth, last.startYear, last.startMonth)

StartNotAfterEnd ==
    ~Later(last.startYear, last.startMonth, RangeEndYear, RangeEndMonth)

\* C1: an expand call whose start month is the end month or later persists
\* exactly one occurrence, the one of (startMonth, startYear), whatever the
\* frequency.
C1_SingleWhenStartNotBeforeEnd ==
    (Committed /\ StartNotBeforeEnd) =>
        /\ Cardinality(StoreOfCall) = 1
        /\ \A d \in StoreOfCall :
              d.month = last.startMonth /\ d.year = last.startYear

C1_Witness ==
    /\ Committed
    /\ last.template.frequency = "weekly"
    /\ last.startMonth = 12 /\ last.endMonth = 12
    /\ last.startYear = last.endYear
    /\ Cardinality(StoreOfCall) = 1

\* C2: the batch of one expand call is never empty, starts with the
\* occurrence of (startMonth, startYear) and is in non-decreasing
\* (year, month) order.
C2_FirstAndOrdered ==
    Expanded =>
        /\ Len(last.emitted) >= 1
        /\ last.emitted[1].month = last.startMonth
        /\ last.emitted[1].year = last.startYear
        /\ \A k \in 1..(Len(last.emitted) - 1) :
              ~Later(last.emitted[k].year, last.emitted[k].month,
                     last.emitted[k + 1].year, last.emitted[k + 1].month)

C2_Witness ==
    /\ Expanded
    /\ last.template.frequency = "weekly"
    /\ Len(last.emitted) > 12
    /\ \E k \in 1..(Len(last.emitted) - 1) :
          /\ last.emitted[k].month = 12
          /\ last.emitted[k + 1].year = last.emitted[k].year + 1

\* C3: every occurrence an expand call persists has a month in 1..12.
C3_MonthInRange ==
    Committed => \A d \in StoreOfCall : d.month \in 1..12

\* C4: a monthly template over a range whose start is not later than its
\* end yields one occurrence per calendar month from start through end,
\* (endYear - startYear) * 12 + (endMonth - startMonth + 1) in all, each
\* with the template's amount.
C4_MonthlyOnePerMonth ==
    (Expanded /\ last.template.frequency = "monthly" /\ StartNotAfterEnd) =>
        /\ Len(last.emitted) =
              (RangeEndYear - last.startYear) * 12
                  + (RangeEndMonth - last.startMonth + 1)
        /\ \A k \in 1..Len(last.emitted) :
              LET index == last.startYear * 12 + (last.startMonth - 1) + (k - 1)
              IN  /\ last.emitted[k].year = index \div 12
                  /\ last.emitted[k].month = (index % 12) + 1
                  /\ last.emitted[k].amount = last.template.amount

C4_Witness ==
    /\ Committed
    /\ last.op = "createRecurringExpense"
    /\ last.template.frequency = "monthly"
    /\ last.template.amount = 15
    /\ last.template.dueDayOfMonth = 1
    /\ <<last.startMonth, last.startYear, last.endMonth, last.endYear>>
          = <<1, 2024, 3, 2024>>
    /\ {<<d.month, d.dueDate, d.amount>> : d \in expenseStore}
          = {<<1, <<Date(2024, 1, 1)>>, 15>>,
             <<2, <<Date(2024, 2, 1)>>, 15>>,
             <<3, <<Date(2024, 3, 1)>>, 15>>}
    /\ Cardinality(expenseStore) = 3

\* C5: a template with frequency once expands to a single occurrence.
C5_OnceIsSingle ==
    (Expanded /\ last.template.frequency = "once") => Len(last.emitted) = 1

\* C6: no occurrence after the first lies in a month later than the end of
\* the requested range.
C6_NotBeyondEnd ==
    Expanded =>
        \A k \in 2..Len(last.emitted) :
            ~Later(last.emitted[k].year, last.emitted[k].month,
                   RangeEndYear, RangeEndMonth)

C6_Witness ==
    /\ Committed
    /\ last.template.frequency = "biweekly"
    /\ Len(last.emitted) > 2
    /\ last.emitted[Len(last.emitted)].month = RangeEndMonth
    /\ last.emitted[Len(last.emitted)].year = RangeEndYear

\* C7: with a dueDayOfMonth d, every expense occurrence is due in its own
\* (year, month), on day min(d, days in that month).
C7_DueDateClamped ==
    (Expanded /\ last.op = "createRecurringExpense"
        /\ last.template.dueDayOfMonth >= 1) =>
        \A k \in 1..Len(last.emitted) :
            LET e == last.emitted[k]
            IN  e.dueDate =
                  <<Date(e.year, e.month,
                         Min(last.template.dueDayOfMonth, DaysInMonth(e.year, e.month)))>>

\* C8: an expense occurrence with a due date is paid exactly when the due
\* date is today or earlier, whatever the template's isPaid says.
C8_PaidByDueDate ==
    (Expanded /\ last.op = "createRecurringExpense") =>
        \A k \in 1..Len(last.emitted) :
            LET e == last.emitted[k]
            IN  e.dueDate # <<>> => (e.isPaid <=> DateLE(e.dueDate[1], today))

C8_Witness ==
    /\ Committed
    /\ last.op = "createRecurringExpense"
    /\ last.template.isPaid
    /\ \E d \in expenseStore : d.dueDate = <<today>> /\ d.isPaid
    /\ \E d \in expenseStore :
          d.dueDate # <<>> /\ ~DateLE(d.dueDate[1], today) /\ ~d.isPaid

\* C9: an expand call with an unrecognized frequency, or with a
\* dueDayOfMonth outside 1..31, fails with a validation error and writes
\* nothing.
C9_ValidationRejects ==
    (Expanded /\ last.op = "createRecurringExpense"
        /\ (\/ last.template.frequency \notin RecognizedFrequencies
            \/ last.template.dueDayOfMonth > 31)) =>
        /\ last.outcome = "error"
        /\ last.error = "ValidationError"
        /\ expenseStore = {}

-----------------------------------------------------------------------------
(* Properties of the dashboard's total income *)

\* the entries the total is taken over: the resolved owner's entries of the
\* requested month that pass the includePending filter
CountedIncome ==
    {d \in incomeStore :
        /\ d.userId = GetCurrentUserId.userId
        /\ d.month = last.month /\ d.year = last.year
        /\ (last.includePending \/ d.isPaid)}

\* what the entry adds to the total: four times the amount when recurring
\* weekly, amount * floor(daysInMonth / 14) when recurring biweekly, the
\* amount otherwise
ExpectedContribution(d) ==
    IF d.recurring /\ d.frequency = "weekly" THEN 4 * d.amount
    ELSE IF d.recurring /\ d.frequency = "biweekly"
    THEN d.amount * (DaysInMonth(d.year, d.month) \div 14)
    ELSE d.amount

RECURSIVE ExpectedTotal(_)
ExpectedTotal(items) ==
    IF items = {} THEN 0
    ELSE LET d == CHOOSE x \in items : TRUE
         IN  ExpectedContribution(d) + ExpectedTotal(items \ {d})

\* C10: in the month's total income a recurring weekly entry counts
\* amount * floor(daysInMonth / 7), which is 4 * amount in every month of 28
\* to 31 days; a recurring biweekly entry counts
\* amount * floor(daysInMonth / 14); every other entry counts its amount once.
C10_IncomeScaling ==
    (last.op = "calculateTotalIncomeWithRecurring" /\ last.outcome = "ok") =>
        last.value = ExpectedTotal(CountedIncome)

C10_Witness ==
    /\ last.op = "calculateTotalIncomeWithRecurring" /\ last.outcome = "ok"
    /\ DaysInMonth(last.year, last.month) = 31
    /\ \E d \in CountedIncome :
          d.recurring /\ d.frequency = "weekly" /\ d.amount = 100
    /\ \E d \in CountedIncome :
          d.recurring /\ d.frequency = "monthly" /\ d.amount = 15
    /\ last.value = 415

-----------------------------------------------------------------------------
(* Properties of the dashboard totals and of the stored summary *)

\* the owner's income and expenses of the month the dashboard shows
ShownIncome ==
    {d \in incomeStore : /\ d.userId = GetCurrentUserId.userId
                         /\ d.month = selectedMonth /\ d.year = selectedYear}

ShownExpenses(category) ==
    {d \in expenseStore : /\ d.userId = GetCurrentUserId.userId
                          /\ d.month = selectedMonth /\ d.year = selectedYear
                          /\ d.category = category}

Categories == {"fixed", "variable", "subscription"}

\* the dashboard has computed its income total
IncomeComputed == last.op \in {"fetchData", "recalculateIncome"} /\ last.outcome = "ok"

\* the dashboard has fetched the month
Fetched == last.op = "fetchData" /\ last.outcome = "ok"

\* C11: an income total computed with includePending = false counts the
\* month's paid entries only, and one computed with includePending = true
\* counts every entry of the month; after a fetch each category total the
\* dashboard derives is the sum over the month's paid entries of the
\* category while includePending is false, and over all of them while it is
\* true.
C11_PendingFilter ==
    /\ (IncomeComputed /\ ~last.includePending) =>
          last.value = ExpectedTotal({d \in ShownIncome : d.isPaid})
    /\ (IncomeComputed /\ last.includePending) =>
          last.value = ExpectedTotal(ShownIncome)
    /\ (Fetched /\ ~includePending) =>
          \A category \in Categories :
              GetExpenseTotal(expensesList, category, includePending) =
                  SumAmount({d \in ShownExpenses(category) : d.isPaid})
    /\ (Fetched /\ includePending) =>
          \A category \in Categories :
              GetExpenseTotal(expensesList, category, includePending) =
                  SumAmount(ShownExpenses(category))

C11_Witness ==
    /\ Fetched /\ ~last.includePending /\ ~includePending
    /\ \E d \in ShownIncome : ~d.isPaid
    /\ \E d \in ShownIncome : d.isPaid
    /\ last.value = 400
    /\ \E d \in ShownExpenses("fixed") : ~d.isPaid
    /\ FixedExpenses = 100

\* every summary a call has returned
ReturnedSummaries ==
    {calls[c].result[1] : c \in {x \in Callers : calls[x].result # <<>>}}

PaidEntries(d, category) ==
    {e \in expenseStore : /\ e.userId = d.userId /\ e.month = d.month
                          /\ e.year = d.year /\ e.category = category /\ e.isPaid}

\* C13: in every stored summary paidFixedExpenses, paidVariableExpenses and
\* paidSubscriptions are the sums of amount over the month's paid entries of
\* the category, and none exceeds the category's total.
C13_PaidTotals ==
    \A d \in summaryStore :
        /\ d.paidFixedExpenses = SumAmount(PaidEntries(d, "fixed"))
        /\ d.paidVariableExpenses = SumAmount(PaidEntries(d, "variable"))
        /\ d.paidSubscriptions = SumAmount(PaidEntries(d, "subscription"))
        /\ d.paidFixedExpenses <= d.totalFixedExpenses
        /\ d.paidVariableExpenses <= d.totalVariableExpenses
        /\ d.paidSubscriptions <= d.totalSubscriptions

C13_Witness ==
    \E d \in summaryStore :
        /\ d.paidFixedExpenses = 100 /\ d.totalFixedExpenses = 115
        /\ \E e \in expenseStore : e.category = "fixed" /\ ~e.isPaid

\* the income entries of the month and for the owner of summary d
IncomeOf(d) ==
    {i \in incomeStore : i.userId = d.userId /\ i.month = d.month /\ i.year = d.year}

\* C14: the totalIncome of every stored summary is the month's income with
\* the recurring-frequency scaling applied (a recurring weekly entry counts
\* four times, a recurring biweekly entry amount * floor(daysInMonth / 14)),
\* which is the total the dashboard computes with includePending = true.
C14_StoredIncomeScaled ==
    \A d \in summaryStore :
        /\ d.totalIncome = ExpectedTotal(IncomeOf(d))
        /\ (Fetched /\ last.includePending /\ d.month = last.month
              /\ d.year = last.year) => d.totalIncome = last.value

\* C20: in every reachable state, under every interleaving of the steps of
\* concurrent summary calls for the same month, the summaries collection
\* holds at most one document per (userId, month, year).
C20_OneSummaryPerKey ==
    \A d1 \in summaryStore, d2 \in summaryStore :
        (d1.userId = d2.userId /\ d1.month = d2.month /\ d1.year = d2.year)
            => d1.id = d2.id

-----------------------------------------------------------------------------
(* Properties of the delete operations *)

\* the expenses collection before the last call, and what the call removed
ExpensesBefore == last.before[2]
Removed == ExpensesBefore \ expenseStore

BulkDeleted == last.op = "bulkDeleteRecurringExpenses" /\ last.outcome = "ok"

\* d is a recurring entry of the owner with the template's category,
\* subcategory, amount, frequency and dueDayOfMonth
SameSeries(d, template) ==
    /\ d.recurring
    /\ d.userId = GetCurrentUserId.userId
    /\ d.category = template.category
    /\ d.subcategory = template.subcategory
    /\ d.amount = template.amount
    /\ d.frequency = template.frequency
    /\ d.dueDayOfMonth = template.dueDayOfMonth

\* C15: a bulk delete removes only recurring entries of the resolved owner
\* that have the template's category, subcategory, amount, frequency and
\* dueDayOfMonth; an entry that differs in any of these stays.
C15_OnlySeriesDeleted ==
    /\ BulkDeleted => \A d \in Removed : SameSeries(d, last.template)
    /\ last.op = "bulkDeleteRecurringExpenses" => expenseStore \subseteq ExpensesBefore

C15_Witness ==
    /\ BulkDeleted /\ last.template.amount = 15 /\ last.template.dueDayOfMonth = 1
    /\ Removed # {}
    /\ \E d \in expenseStore : d.amount = 100
    /\ \E d \in expenseStore : d.userId = PartnerUser.uid

\* C16: with deleteAll a bulk delete removes every entry of the series; with
\* deleteAll false and a cutoff (fromMonth, fromYear) it removes exactly the
\* entries of the series with year > fromYear, or year = fromYear and
\* month >= fromMonth; it returns the number of entries removed.
C16_CutoffPartition ==
    BulkDeleted =>
        LET series == {d \in ExpensesBefore : SameSeries(d, last.template)}
        IN  /\ last.deleteAll => Removed = series
            /\ (~last.deleteAll /\ last.year # 0) =>
                  Removed = {d \in series :
                                \/ d.year > last.year
                                \/ (d.year = last.year /\ d.month >= last.month)}
            /\ last.value = Cardinality(Removed)

C16_Witness ==
    /\ BulkDeleted /\ ~last.deleteAll /\ last.month = 6 /\ last.year = 2024
    /\ {<<d.month, d.year>> : d \in ExpensesBefore} = {<<3, 2024>>, <<6, 2024>>, <<1, 2025>>}
    /\ \A d \in ExpensesBefore : SameSeries(d, last.template)
    /\ {<<d.month, d.year>> : d \in expenseStore} = {<<3, 2024>>}
    /\ last.value = 2

\* C28: a bulk delete with deleteAll false and no cutoff year removes every
\* entry of the series, as deleteAll true does, whatever the cutoff month;
\* with a cutoff year and no cutoff month it removes the entries of the
\* series of that year and of later years.
C28_OmittedCutoff ==
    (BulkDeleted /\ ~last.deleteAll) =>
        LET series == {d \in ExpensesBefore : SameSeries(d, last.template)}
        IN  /\ last.year = 0 => Removed = series
            /\ (last.year # 0 /\ last.month = 0) =>
                  Removed = {d \in series : d.year >= last.year}

\* a call without a cutoff removes a series with entries in March 2024, June
\* 2024 and January 2025
C28_Witness ==
    /\ BulkDeleted /\ ~last.deleteAll /\ last.month = 0 /\ last.year = 0
    /\ {<<d.month, d.year>> : d \in Removed} = {<<3, 2024>>, <<6, 2024>>, <<1, 2025>>}
    /\ \A d \in Removed : SameSeries(d, last.template)
    /\ last.value = Cardinality(Removed)

\* a call with the cutoff year 2025 alone removes the entry of January 2025
\* and leaves those of 2024
C28_WitnessYear ==
    /\ BulkDeleted /\ ~last.deleteAll /\ last.month = 0 /\ last.year = 2025
    /\ {<<d.month, d.year>> : d \in Removed} = {<<1, 2025>>}
    /\ \E d \in expenseStore : SameSeries(d, last.template) /\ d.year = 2024

\* the collection a single delete works on: its index in Stores
DeleteOps == {"deleteIncome", "deleteExpense", "deleteTransaction"}

Collection(op) ==
    IF op = "deleteIncome" THEN 1 ELSE IF op = "deleteExpense" THEN 2 ELSE 3

NotFoundError(op) ==
    IF op = "deleteIncome" THEN "Income record not found"
    ELSE IF op = "deleteExpense" THEN "Expense not found"
    ELSE "Transaction not found"

NotAuthorizedError(op) ==
    IF op = "deleteIncome" THEN "Not authorized to delete this income record"
    ELSE IF op = "deleteExpense" THEN "Not authorized to delete this expense"
    ELSE "Not authorized to delete this transaction"

\* C17: deleteIncome, deleteExpense and deleteTransaction of a signed-in
\* user fail with the not-found error when no entry has the id and with the
\* not-authorized error when the entry is of another owner, and leave all
\* collections as they were; a delete that succeeds removes the addressed
\* entry and nothing else.
C17_DeleteChecks ==
    (last.op \in DeleteOps /\ GetCurrentUserId.ok) =>
        LET k == Collection(last.op)
            before == last.before[k]
            addressed == {d \in before : d.id = last.id}
        IN  /\ addressed = {} =>
                  /\ last.outcome = "error" /\ last.error = NotFoundError(last.op)
                  /\ Stores = last.before
            /\ (\E d \in addressed : d.userId # GetCurrentUserId.userId) =>
                  /\ last.outcome = "error" /\ last.error = NotAuthorizedError(last.op)
                  /\ Stores = last.before
            /\ (\E d \in addressed : d.userId = GetCurrentUserId.userId) =>
                  IF last.outcome = "ok"
                  THEN /\ Stores[k] = before \ addressed
                       /\ \A j \in (1..3) \ {k} : Stores[j] = last.before[j]
                  ELSE /\ last.error = "delete failed"
                       /\ Stores = last.before
            /\ last.outcome = "ok" => addressed # {}

C17_Witness ==
    /\ last.op = "deleteExpense"
    /\ last.error = "Not authorized to delete this expense"
    /\ \E d \in expenseStore : d.id = last.id /\ d.userId = PartnerUser.uid
    /\ Cardinality(expenseStore) = 3

-----------------------------------------------------------------------------
(* Properties of owner resolution and of isPaid *)

\* the owner the data belongs to: the configured primary id when one is
\* configured and the signed-in user's email is not the primary email, the
\* user's own uid otherwise
Owner ==
    IF envPrimaryId # "" /\ authUser.email # envPrimaryEmail
    THEN envPrimaryId
    ELSE authUser.uid

ServiceOps ==
    {"addOrUpdateExpense", "addTransaction", "getAllMonthlyExpenses",
     "getMonthlyTransactionsByCategory", "calculateTotalIncomeWithRecurring"}

\* C18: a service call made with no user signed in fails with 'User not
\* authenticated'; otherwise the entry it creates or rewrites carries, and
\* the entries it reads are exactly those of the month that carry, the
\* primary id when a primary id is configured and the signed-in user is not
\* the primary user, and the user's own uid in every other case.
C18_ResolvedOwner ==
    last.op \in ServiceOps =>
        /\ authUser = NoUser =>
              last.outcome = "error" /\ last.error = "User not authenticated"
        /\ (last.op = "addOrUpdateExpense" /\ last.outcome = "ok") =>
              \A d \in expenseStore : d.id = last.value => d.userId = Owner
        /\ (last.op = "addTransaction" /\ last.outcome = "ok") =>
              \A d \in transactionStore : d.id = last.value => d.userId = Owner
        /\ (last.op = "getAllMonthlyExpenses" /\ last.outcome = "ok") =>
              last.result = {d \in expenseStore : /\ d.userId = Owner
                                                  /\ d.month = last.month
                                                  /\ d.year = last.year}
        /\ (last.op = "getMonthlyTransactionsByCategory" /\ last.outcome = "ok") =>
              /\ \A d \in last.result : d.userId = Owner
              /\ \A d \in transactionStore :
                    (d.userId = Owner /\ d.category = "Groceries"
                       /\ d.month = last.month /\ d.year = last.year)
                        => d \in last.result
        /\ (last.op = "calculateTotalIncomeWithRecurring" /\ last.outcome = "ok") =>
              last.value = ExpectedTotal({d \in incomeStore : /\ d.userId = Owner
                                                             /\ d.month = last.month
                                                             /\ d.year = last.year})

C18_Witness ==
    /\ authUser = PartnerUser /\ envPrimaryId = PrimaryUser.uid
    /\ envPrimaryEmail = PrimaryUser.email
    /\ last.op = "addOrUpdateExpense" /\ last.outcome = "ok" /\ last.id = 0
    /\ \E d \in expenseStore : d.id = last.value /\ d.userId = PrimaryUser.uid

\* C19: no step changes the isPaid of a stored expense except a successful
\* addOrUpdateExpense with that entry's id: reads, summary steps, the
\* creation or deletion of other entries, and the passing of days (also
\* past the entry's due date) leave it as it was stored.
C19_IsPaidKept ==
    [][\A d \in expenseStore : \A e \in expenseStore' :
          (e.id = d.id /\ e.isPaid # d.isPaid) =>
              /\ last'.op = "addOrUpdateExpense" /\ last'.outcome = "ok"
              /\ last'.id = d.id
              /\ UNCHANGED <<today, calls, summaryStore, pc>>]_vars

C19_Witness ==
    /\ last.op = "getAllMonthlyExpenses" /\ last.outcome = "ok"
    /\ \E d \in last.result :
          /\ d \in expenseStore /\ ~d.isPaid /\ d.dueDate # <<>>
          /\ DateLE(d.dueDate[1], today) /\ d.dueDate[1] # today
    /\ \E d \in expenseStore : d.isPaid /\ d.userId = PrimaryUser.uid
    /\ summaryStore # {}
    /\ pc = "done"

-----------------------------------------------------------------------------
(* Properties of the summary cache *)

\* the expenses of a category in the month and for the owner of summary d
ExpensesOf(d, category) ==
    {e \in expenseStore : /\ e.userId = d.userId /\ e.month = d.month
                          /\ e.year = d.year /\ e.category = category}

\* summary d holds the sums of amount over the entries of its key
ComputedFromEntries(d) ==
    /\ d.totalIncome = SumAmount(IncomeOf(d))
    /\ d.totalFixedExpenses = SumAmount(ExpensesOf(d, "fixed"))
    /\ d.totalVariableExpenses = SumAmount(ExpensesOf(d, "variable"))
    /\ d.totalSubscriptions = SumAmount(ExpensesOf(d, "subscription"))
    /\ d.paidFixedExpenses = SumAmount(PaidEntries(d, "fixed"))
    /\ d.paidVariableExpenses = SumAmount(PaidEntries(d, "variable"))
    /\ d.paidSubscriptions = SumAmount(PaidEntries(d, "subscription"))

\* summary d is of the key call c asked for
OfKey(d, c) ==
    d.userId = calls[c].userId /\ d.month = calls[c].month /\ d.year = calls[c].year

\* C21: when the lookup of getMonthlySummary finds a summary of the key, the
\* call returns a stored summary of the key and the summaries are not
\* written; when it finds none, the call goes on to compute, and when it
\* returns, the summary it returns is stored, is of the key, and holds the
\* sums over the income and expense entries of the key.
C21_CachedOrComputed ==
    [][\A c \in Callers :
          /\ (calls[c].at = "getDocs" /\ calls'[c] # calls[c]) =>
                /\ summaryStore' = summaryStore
                /\ IF SummaryQuery(calls[c].userId, calls[c].month, calls[c].year) # {}
                   THEN /\ calls'[c].at = "returned"
                        /\ calls'[c].result # <<>>
                        /\ calls'[c].result[1] \in summaryStore
                        /\ OfKey(calls'[c].result[1], c)
                   ELSE calls'[c].at \in {"income", "failed"}
          /\ (calls[c].at = "write" /\ calls'[c] # calls[c]) =>
                /\ calls'[c].at = "returned"
                /\ calls'[c].result # <<>>
                /\ calls'[c].result[1] \in summaryStore'
                /\ OfKey(calls'[c].result[1], c)
                /\ ComputedFromEntries(calls'[c].result[1])
                /\ UNCHANGED entryVars]_vars

\* one call has computed and stored the summary of February 2024, and a later
\* call has returned the stored one without computing anything
C21_Witness ==
    /\ calls["dashboard"].at = "returned" /\ calls["charts"].at = "returned"
    /\ calls["dashboard"].result = calls["charts"].result
    /\ calls["dashboard"].totalFixedExpenses = 115
    /\ calls["charts"].totalFixedExpenses = 0
    /\ summaryStore = {calls["charts"].result[1]}
    /\ calls["charts"].result[1].totalFixedExpenses = 115

\* the summaries of the key call c asked for
StoredFor(c) == SummaryQuery(calls[c].userId, calls[c].month, calls[c].year)

\* the key of call c as a summary-shaped record
KeyOf(c) == [userId |-> calls[c].userId, month |-> calls[c].month, year |-> calls[c].year]

\* C22: a step that creates, rewrites or deletes an income, expense or
\* transaction entry leaves the summaries as they are; getMonthlySummary
\* returns a stored summary of the key as it is stored, whatever the entries
\* are by then; a stored summary changes only in the write of
\* calculateAndSaveMonthSummary, which reads each total from the entries
\* current at that read and replaces the stored summary of the key by the
\* summary of the totals it read.
C22_StaleUntilRecomputed ==
    [][/\ entryVars' # entryVars => summaryStore' = summaryStore
       /\ \A c \in Callers :
             /\ (calls[c].at = "getDocs" /\ calls'[c] # calls[c] /\ StoredFor(c) # {}) =>
                   /\ calls'[c].at = "returned"
                   /\ calls'[c].result # <<>>
                   /\ calls'[c].result[1] \in summaryStore
                   /\ summaryStore' = summaryStore
             /\ (calls[c].at = "income" /\ calls'[c] # calls[c]) =>
                   calls'[c].totalIncome = SumAmount(IncomeOf(KeyOf(c)))
             /\ (calls[c].at = "fixed" /\ calls'[c] # calls[c]) =>
                   /\ calls'[c].totalFixedExpenses = SumAmount(ExpensesOf(KeyOf(c), "fixed"))
                   /\ calls'[c].paidFixedExpenses = SumAmount(PaidEntries(KeyOf(c), "fixed"))
             /\ (calls[c].at = "variable" /\ calls'[c] # calls[c]) =>
                   /\ calls'[c].totalVariableExpenses =
                          SumAmount(ExpensesOf(KeyOf(c), "variable"))
                   /\ calls'[c].paidVariableExpenses =
                          SumAmount(PaidEntries(KeyOf(c), "variable"))
             /\ (calls[c].at = "subscription" /\ calls'[c] # calls[c]) =>
                   /\ calls'[c].totalSubscriptions =
                          SumAmount(ExpensesOf(KeyOf(c), "subscription"))
                   /\ calls'[c].paidSubscriptions =
                          SumAmount(PaidEntries(KeyOf(c), "subscription"))
       /\ summaryStore' # summaryStore =>
             \E c \in Callers :
                 /\ calls[c].at = "write" /\ calls'[c].at = "returned"
                 /\ StoredFor(c) # {} => calls[c].op = "calculateAndSaveMonthSummary"
                 /\ LET written == calls'[c].result[1]
                    IN  /\ {d \in summaryStore' : OfKey(d, c)} = {written}
                        /\ summaryStore' \ {written} = summaryStore \ StoredFor(c)
                        /\ written.totalIncome = calls[c].totalIncome
                        /\ written.totalFixedExpenses = calls[c].totalFixedExpenses
                        /\ written.totalVariableExpenses = calls[c].totalVariableExpenses
                        /\ written.totalSubscriptions = calls[c].totalSubscriptions
                        /\ written.paidFixedExpenses = calls[c].paidFixedExpenses
                        /\ written.paidVariableExpenses = calls[c].paidVariableExpenses
                        /\ written.paidSubscriptions = calls[c].paidSubscriptions]_vars

\* an expense was added after the summary of June 2024 was stored:
\* getMonthlySummary has returned the stored totals, which are not the sums
\* over the entries any more
C22_WitnessStale ==
    /\ calls["dashboard"].op = "getMonthlySummary"
    /\ calls["dashboard"].at = "returned"
    /\ calls["dashboard"].result[1] \in summaryStore
    /\ calls["dashboard"].result[1].totalFixedExpenses = 0
    /\ SumAmount(ExpensesOf(calls["dashboard"].result[1], "fixed")) = 100
    /\ last.op = "addOrUpdateExpense" /\ last.outcome = "ok"

\* the summary of June 2024 was stored before the month had expenses, an
\* expense was added, and an explicit recomputation has replaced the stored
\* summary
C22_Witness ==
    /\ calls["dashboard"].op = "calculateAndSaveMonthSummary"
    /\ calls["dashboard"].at = "returned"
    /\ summaryStore = {calls["dashboard"].result[1]}
    /\ calls["dashboard"].result[1].totalFixedExpenses = 100
    /\ calls["dashboard"].result[1].id = Cardinality(StoredIncome) + 1
    /\ \E d \in expenseStore : d.id > calls["dashboard"].result[1].id

-----------------------------------------------------------------------------
(* Properties of the batch operations *)

BatchOps ==
    {"createRecurringIncome", "createRecurringExpense", "bulkDeleteRecurringExpenses"}

\* the collection a batch operation writes: its index in Stores
BatchCollection(op) == IF op = "createRecurringIncome" THEN 1 ELSE 2

\* C23: a call of createRecurringIncome, createRecurringExpense or
\* bulkDeleteRecurringExpenses that fails, at the commit of its batch or
\* before, leaves every collection as it was; one that succeeds has added
\* every occurrence of its batch, each as a new document, or has removed
\* every entry of the template's series that the cutoff selects, and has
\* changed nothing else.
C23_AllOrNothing ==
    [][(last' # last /\ last'.op \in BatchOps) =>
          LET k == BatchCollection(last'.op)
              before == Stores[k]
              after == Stores'[k]
              emitted == last'.emitted
              selected == {d \in before :
                              /\ SameSeries(d, last'.template)
                              /\ ToDelete(d, last'.deleteAll, last'.month, last'.year)}
          IN  /\ \A j \in (1..3) \ {k} : Stores'[j] = Stores[j]
              /\ last'.outcome \in {"ok", "error"}
              /\ last'.outcome = "error" =>
                    /\ after = before
                    /\ last'.error \in {"commit failed", "User not authenticated"}
              /\ (last'.outcome = "ok" /\ last'.op # "bulkDeleteRecurringExpenses") =>
                    /\ Len(emitted) >= 1
                    /\ \A n \in 1..Len(emitted) : emitted[n] \in after \ before
                    /\ Cardinality(after) = Cardinality(before) + Len(emitted)
              /\ (last'.outcome = "ok" /\ last'.op = "bulkDeleteRecurringExpenses") =>
                    /\ after = before \ selected
                    /\ last'.value = Cardinality(selected)]_vars

\* the commit of a bulk delete that had two entries to delete has failed
\* after a series of three was created, and all of them are still stored
C23_Witness ==
    /\ last.op = "bulkDeleteRecurringExpenses" /\ last.error = "commit failed"
    /\ pc = "done"
    /\ Cardinality({d \in expenseStore :
                       /\ SameSeries(d, last.template)
                       /\ ToDelete(d, last.deleteAll, last.month, last.year)}) >= 2
    /\ Cardinality({d \in expenseStore : d.id > Cardinality(StoredExpenses)}) = 3
    /\ ~last.deleteAll /\ last.year = 2024

-----------------------------------------------------------------------------
(* Properties of the iteration cap *)

\* the whole-month span of the range the last expand call worked with
MonthSpan ==
    (RangeEndYear - last.startYear) * 12 + (RangeEndMonth - last.startMonth + 1)

\* occurrences per month of span the loop counter allows: the counter grows
\* by 0.25 per weekly occurrence, 0.5 per biweekly one and 1 per other one
PerMonth(frequency) ==
    IF frequency = "weekly" THEN 4 ELSE IF frequency = "biweekly" THEN 2 ELSE 1

\* C24 as stated: for a range with start not later than end, one expand call
\* emits at most totalMonths occurrences, whatever the frequency.
C24_AtMostTotalMonths ==
    (Expanded /\ StartNotAfterEnd) => Len(last.emitted) <= MonthSpan

\* C24 as amended: for a range with start not later than end, one expand
\* call emits at most totalMonths occurrences for monthly and any other
\* frequency, at most 2 * totalMonths for biweekly and at most
\* 4 * totalMonths for weekly.
C24_AtMostCounterSteps ==
    (Expanded /\ StartNotAfterEnd) =>
        Len(last.emitted) <= PerMonth(last.template.frequency) * MonthSpan

\* a weekly series over March to December 2024: ten months, thirty-seven
\* occurrences
C24_Witness ==
    /\ Expanded /\ StartNotAfterEnd
    /\ last.template.frequency = "weekly"
    /\ last.startMonth = 3 /\ last.startYear = 2024
    /\ last.endMonth = 12 /\ last.endYear = 2024
    /\ MonthSpan = 10
    /\ Len(last.emitted) = 37

-----------------------------------------------------------------------------
(* Properties of the month-scoped reads *)

MonthReads ==
    {"getMonthlyIncome", "getAllMonthlyExpenses", "getMonthlyExpensesByCategory",
     "getMonthlyTransactionsByCategory"}

\* the last call is a month-scoped read that got past owner resolution
ReadMade == last.op \in MonthReads /\ last.query # "none"

\* C25: a month-scoped read runs its fallback query only after the filtered
\* query has failed with the missing-index condition; every other failure
\* of the filtered query, and every failure of the fallback query, is the
\* error the read throws.
C25_FallbackOnlyOnMissingIndex ==
    ReadMade =>
        /\ last.fallback # "none" => last.query = "failed-precondition"
        /\ last.query \in GatewayErrors \ {"failed-precondition"} =>
              last.outcome = "error" /\ last.error = last.query
        /\ last.fallback \in GatewayErrors =>
              last.outcome = "error" /\ last.error = last.fallback
        /\ last.outcome = "ok" => last.query = "ok" \/ last.fallback = "ok"

\* the owner's records of the month the read was asked for, and of the
\* category when one was given
OwnersOfMonth(store) ==
    {d \in store : /\ d.userId = GetCurrentUserId.userId
                   /\ d.month = last.month /\ d.year = last.year
                   /\ (last.category # "" => d.category = last.category)}

\* the collection a read works on
ReadStore ==
    IF last.op = "getMonthlyIncome" THEN incomeStore
    ELSE IF last.op = "getMonthlyTransactionsByCategory" THEN transactionStore
    ELSE expenseStore

\* months the two paths are compared for: those the stores hold entries of,
\* and one they hold none of
Months == {1, 3, 6, 7}

\* C26: a month-scoped read that succeeds returns the records of the
\* resolved owner whose year and month, and category where one is asked
\* for, are the requested ones, whether the filtered query or the fallback
\* produced them; transactions come in an order of non-increasing date on
\* both paths; and on every store the filtered query and the fallback select
\* the same records for every month, year and category.
C26_FallbackSameRecords ==
    /\ (ReadMade /\ last.outcome = "ok") =>
          /\ last.result = OwnersOfMonth(ReadStore)
          /\ last.op = "getMonthlyTransactionsByCategory" =>
                /\ Range(last.ordered) = last.result
                /\ Len(last.ordered) = Cardinality(last.result)
                /\ \A k \in 1..(Len(last.ordered) - 1) :
                      DateLE(last.ordered[k + 1].date, last.ordered[k].date)
    /\ \A userId \in {PrimaryUser.uid, PartnerUser.uid}, month \in Months, year \in Years :
          /\ GetMonthlyIncomeFallback(userId, month, year) =
                GetMonthlyIncomeQuery(userId, month, year)
          /\ GetAllMonthlyExpensesFallback(userId, month, year) =
                GetAllMonthlyExpensesQuery(userId, month, year)
          /\ \A category \in Categories :
                GetMonthlyExpensesByCategoryFallback(userId, month, year, category) =
                    GetMonthlyExpensesByCategoryQuery(userId, month, year, category)
          /\ \A category \in {"", "Groceries", "Fuel"} :
                GetMonthlyTransactionsFallback(userId, month, year, category) =
                    GetMonthlyTransactionsQuery(userId, month, year, category)

\* the fallback of the transactions read has returned the three June 2024
\* transactions of the owner, the earliest last, out of a collection that
\* also holds a transaction of the partner and transactions of other months
C26_Witness ==
    /\ last.op = "getMonthlyTransactionsByCategory" /\ last.outcome = "ok"
    /\ last.fallback = "ok" /\ last.category = ""
    /\ Len(last.ordered) = 3
    /\ last.ordered[3].date = Date(2024, 6, 3)
    /\ last.ordered[1].date = last.ordered[2].date
    /\ \E d \in transactionStore : d.userId # GetCurrentUserId.userId
    /\ \E d \in transactionStore : d.month # last.month
    /\ \E d \in transactionStore : d.year # last.year

-----------------------------------------------------------------------------
(* Properties of the income total over a recurring series *)

\* the entries the last total was computed from
SeriesIncome ==
    PendingFilter({d \in incomeStore : /\ d.userId = GetCurrentUserId.userId
                                       /\ d.month = last.month
                                       /\ d.year = last.year},
                  last.includePending)

\* the entries are k records of one weekly series of amount a
WeeklySeriesOf(items, k, a) ==
    /\ Cardinality(items) = k
    /\ \A d \in items : d.recurring /\ d.frequency = "weekly" /\ d.amount = a
    /\ \A d, e \in items : d.source = e.source

\* C27: when the entries counted for a month are k stored records of one
\* weekly recurring series of amount a, the dashboard's total income of the
\* month is k * a * floor(daysInMonth / 7): every record is scaled, not the
\* series once.
C27_ScaledPerRecord ==
    (last.op = "calculateTotalIncomeWithRecurring" /\ last.outcome = "ok") =>
        \A k \in 1..5, a \in {IncomeSeriesInput.amount} :
            WeeklySeriesOf(SeriesIncome, k, a) =>
                last.value = k * a * (DaysInMonthOf(last.year, last.month) \div 7)

\* the total of June 2024 over the four records createRecurringIncome stored
\* in it: 4 * 100 * 4
C27_Witness ==
    /\ last.op = "calculateTotalIncomeWithRecurring" /\ last.outcome = "ok"
    /\ last.month = 6 /\ last.year = 2024
    /\ WeeklySeriesOf(SeriesIncome, 4, IncomeSeriesInput.amount)
    /\ last.value = 4 * IncomeSeriesInput.amount * 4
    /\ last.value # IncomeSeriesInput.amount * 4

-----------------------------------------------------------------------------
(* Properties of the handlers of the expenses page *)

Ids(store) == {d.id : d \in store}

\* the last call is a confirmed delete of type future or all on the card of
\* a recurring expense whose bulk delete went through
BulkConfirmed ==
    /\ last.op = "handleConfirmDelete"
    /\ last.deleteType \in {"future", "all"}
    /\ last.template.recurring
    /\ last.bulk = "ok"

\* C29: when handleConfirmDelete with type future or all on a recurring
\* expense gets through its bulk delete, the collection after the bulk
\* delete no longer holds the card's own record, and the single delete of
\* the same id that onDelete starts ends with 'Expense not found' and leaves
\* the collections as the bulk delete left them.
C29_SingleDeleteNotFound ==
    BulkConfirmed =>
        /\ last.id \notin Ids(last.result)
        /\ last.result \subseteq last.before[2]
        /\ last.outcome = "error" /\ last.error = "Expense not found"
        /\ expenseStore = last.result
        /\ incomeStore = last.before[1] /\ transactionStore = last.before[3]

\* type future on the June card of a series with entries in March, June and
\* January 2025: the bulk delete removes two entries, the card's among them,
\* keeps March, and the single delete does not find the card's record
C29_Witness ==
    /\ BulkConfirmed /\ last.deleteType = "future"
    /\ last.id \in Ids(last.before[2])
    /\ last.value = 2
    /\ \E d \in expenseStore : d.month = 3 /\ d.amount = last.template.amount
    /\ last.error = "Expense not found"

\* C30: a status change on a row adds one record to the expenses collection,
\* with a new id, the fields of the row's expense and the new isPaid, and
\* leaves every record stored before, the row's own with its isPaid among
\* them, as it was.
C30_StatusChangeAdds ==
    (last.op = "handleStatusChange" /\ last.outcome = "ok") =>
        LET before == last.before[2]
            added == expenseStore \ before
        IN  /\ before \subseteq expenseStore
            /\ Cardinality(added) = 1
            /\ \A new \in added :
                  /\ new.id = last.value
                  /\ new.id \notin Ids(before) /\ new.id # last.id
                  /\ new.isPaid = (last.status = "paid")
                  /\ new = [last.template EXCEPT !.id = new.id,
                                                 !.userId = GetCurrentUserId.userId,
                                                 !.isPaid = new.isPaid]
            /\ \A d \in before : d.id = last.id => d \in expenseStore

\* a row is set to the status its stored record does not have: the stored
\* record keeps its isPaid next to the new record
C30_Witness ==
    /\ last.op = "handleStatusChange" /\ last.outcome = "ok"
    /\ \E d \in expenseStore : d.id = last.id /\ d.isPaid # (last.status = "paid")
    /\ \E new \in expenseStore : new.id = last.value /\ new.isPaid = (last.status = "paid")
    /\ last.value # last.id

====
